---- MODULE Spec2Model ----
(***************************************************************************)
(* A model of the library_catalog service: the cache-aside layer           *)
(* (core/cache.py), the Unit of Work (data/uow.py) with the repositories   *)
(* (data/repositories), the request session (core/database.py), the book   *)
(* and auth services (domain/services) and the enrichment client           *)
(* (external, core/clients.py).                                            *)
(*                                                                         *)
(* Fourteen specifications share the module:                               *)
(*   CacheSpec    CacheService.get_or_set / invalidate over both backends  *)
(*   UowSpec      one UnitOfWork object: scopes, repository writes, exit   *)
(*   BookSpec     BookService.create_book requests racing over the books   *)
(*                table                                                    *)
(*   CatalogSpec  BookService create, get, update and delete requests      *)
(*   RaceSpec     BookService.update_book requests racing on one book      *)
(*   ClientSpec   CachedOpenLibraryClient calls down to the HTTP attempts  *)
(*                of BaseApiClient._request                                *)
(*   FilterSpec   BookRepository.find_by_filters and count_by_filters      *)
(*   ManagerSpec  ClientsManager: lazy construction, handles, close_all    *)
(*   AuthSpec     AuthService.register calls racing over the users table   *)
(*   StampedeSpec two get_or_set calls on one key, nothing else            *)
(*   RequestSpec  BaseApiClient._request alone, for any retry count, with  *)
(*                fair scheduling of its attempts                          *)
(*   SearchSpec   BookService.search_books beside creates and deletes of   *)
(*                other requests                                           *)
(*   GetDbSpec    one request session of get_db and its exit paths         *)
(*   ShutdownSpec close_all with a request in flight                       *)
(***************************************************************************)
EXTENDS Integers, Sequences, FiniteSets, TLC

(***************************************************************************)
(* Bounds of the model.                                                    *)
(***************************************************************************)
MaxTime == 2
MaxTtl == 2
MaxDefaultTtl == 3
MaxSize == 2
MaxSessions == 2
MaxOps == 2
MaxBooks == 2
MaxUpdates == 2
MaxRetries == 4
\* datetime.now().year when the model runs.
CurrentYear == 2026
\* BaseApiClient.__init__: retries = 3, backoff = 0.5 s (kept in ms).
Retries == 3
Backoff == 500

Keys == {"k1", "k2"}
Tasks == {"t1", "t2"}
\* The tasks that call the cache in CacheSpec: its calls follow one another.
CacheTasks == {"t1"}
\* The task that sends create and get requests in CatalogSpec, and the one
\* that sends its update requests; both send delete requests.
CatalogTasks == {"t1"}
UpdateTasks == {"t2"}

VARIABLES
    \* ---- core/cache.py
    backend,     \* "memory" (InMemoryCache) or "redis" (RedisCache)
    defaultTtl,  \* InMemoryCache: the ttl the TTLCache was built with
    maxsize,     \* InMemoryCache: the maxsize the TTLCache was built with
    mem,         \* InMemoryCache._cache: entries, least recently used first
    redis,       \* the Redis keyspace: a set of entries, one per key at most
    now,         \* the clock both backends expire by
    gos,         \* per task: the frame of its CacheService.get_or_set call
    inv,         \* per key: outcome of the last invalidate or
                 \* invalidate_pattern since the last store: "no" (none),
                 \* "ok" (the backend deleted), "failed" (Redis raised),
                 \* "unsupported" (the pattern call only logged)
    \* ---- data/uow.py, data/repositories/base_repository.py
    db,          \* the committed (durable) rows of the database
    sessions,    \* per session made by the factory: status and working rows
    uowSession,  \* UnitOfWork._session: a session id, 0 for None
    booksSession,\* UnitOfWork.books.session: a session id, 0 before any entry
    usersSession,\* UnitOfWork.users.session: a session id, 0 before any entry
    scope,       \* the `async with uow:` scope: position and history
    \* ---- domain/services/book_service.py, over the books table
    books,       \* the committed rows of the books table
    nextId,      \* the next fresh primary key (uuid4)
    req,         \* per task: the frame of its BookService request
    \* ---- external/openlibrary, external/base/base_client.py
    ol,          \* the frame of the call into CachedOpenLibraryClient
    olStore,     \* the cache entries the cached client created
    \* ---- data/repositories/book_repository.py
    shelf,       \* the rows of the books table the filters run over
    query,       \* the last find_by_filters / count_by_filters and results
    \* ---- core/clients.py
    mgr,         \* ClientsManager: _openlibrary, _cached_openlibrary
    pools,       \* per OpenLibraryClient instance: its httpx.AsyncClient
    held,        \* per task: the handles the manager returned to it
    \* ---- domain/services/auth_service.py, over the users table
    users,       \* the committed rows of the users table
    reg          \* per task: the frame of its AuthService.register call

cacheVars == <<backend, defaultTtl, maxsize, mem, redis, now, gos, inv>>

uowVars == <<db, sessions, uowSession, booksSession, usersSession, scope>>

bookVars == <<books, nextId, req>>

clientVars == <<ol, olStore>>

filterVars == <<shelf, query>>

managerVars == <<mgr, pools, held>>

authVars == <<users, reg>>

vars == <<backend, defaultTtl, maxsize, mem, redis, now, gos, inv,
          db, sessions, uowSession, booksSession, usersSession, scope,
          books, nextId, req, ol, olStore, shelf, query, mgr, pools, held,
          users, reg>>

\* What the actions of one subsystem leave alone.
nonCacheVars ==
    <<uowVars, bookVars, clientVars, filterVars, managerVars, authVars>>
nonUowVars ==
    <<cacheVars, bookVars, clientVars, filterVars, managerVars, authVars>>
nonBookVars ==
    <<cacheVars, uowVars, clientVars, filterVars, managerVars, authVars>>
nonClientVars ==
    <<cacheVars, uowVars, bookVars, filterVars, managerVars, authVars>>
nonFilterVars ==
    <<cacheVars, uowVars, bookVars, clientVars, managerVars, authVars>>
nonManagerVars ==
    <<cacheVars, uowVars, bookVars, clientVars, filterVars, authVars>>
nonAuthVars ==
    <<cacheVars, uowVars, bookVars, clientVars, filterVars, managerVars>>

(***************************************************************************)
(* The database rows the Unit of Work model writes: one book, one user.    *)
(***************************************************************************)
BookRows == {"book1"}
UserRows == {"user1"}
Rows == BookRows \cup UserRows
\* A row is absent or holds one of two contents.
Contents == {"a", "b"}
NoRows == [r \in Rows |-> "absent"]

CacheIdleFrame ==
    [pc |-> "idle", key |-> "k1", ttl |-> 1,
     value |-> [py |-> "None", items |-> {}],
     wasLive |-> FALSE, liveValue |-> [py |-> "None", items |-> {}],
     readFailed |-> FALSE, hit |-> FALSE, age |-> 0, ttlReq |-> 0,
     stored |-> FALSE, computed |-> FALSE, writeFailed |-> FALSE,
     cacheKept |-> TRUE]

NoSession == [status |-> "none", work |-> NoRows]

NewScope ==
    [pc |-> "new", sid |-> 0, exc |-> "none", cancelled |-> FALSE,
     ops |-> 0, uowCommits |-> 0, repoCommits |-> 0, entryDb |-> NoRows,
     rolledBack |-> FALSE, trace |-> <<>>, result |-> 0]

NoIsbn == <<>>

\* A BookUpdate with no field set.
NoUpdate ==
    [fields |-> {}, title |-> "A", year |-> 0, pages |-> 0, isbn |-> NoIsbn]

IdleRequest ==
    [pc |-> "idle", op |-> "none", year |-> 0, pages |-> 0, isbn |-> NoIsbn,
     dupAtCheck |-> FALSE, enrich |-> "none", extra |-> "None", id |-> 0,
     error |-> "none", target |-> 0, data |-> NoUpdate, found |-> "unknown",
     commits |-> 0, writes |-> 0, trace |-> <<>>, result |-> {},
     loaded |-> {}]

\* The book service at rest.
BookIdle ==
    /\ books = {}
    /\ nextId = 1
    /\ req = [t \in Tasks |-> IdleRequest]

\* The cache subsystem at rest.
CacheIdle ==
    /\ backend = "memory"
    /\ defaultTtl = 1
    /\ maxsize = 1
    /\ mem = <<>>
    /\ redis = {}
    /\ now = 0
    /\ gos = [t \in Tasks |-> CacheIdleFrame]
    /\ inv = [k \in Keys |-> "no"]

\* The Unit of Work subsystem at rest (the state the other specifications
\* keep it in).
UowIdle ==
    /\ db = NoRows
    /\ sessions = [i \in 1..MaxSessions |-> NoSession]
    /\ uowSession = 0
    /\ booksSession = 0
    /\ usersSession = 0
    /\ scope = NewScope

\* No call into the enrichment client.
IdleCall ==
    [pc |-> "idle", op |-> "none", isbn |-> NoIsbn, key |-> <<>>,
     hit |-> FALSE, equivLive |-> FALSE, lookup |-> "none", lookups |-> <<>>,
     attempt |-> 0, outcomes |-> <<>>, sleeps |-> <<>>, exc |-> "none",
     found |-> "none", isbnFound |-> "none", answered |-> FALSE,
     value |-> [py |-> "None", items |-> {}], error |-> "none",
     retries |-> Retries]

\* The enrichment client at rest.
ClientIdle ==
    /\ ol = IdleCall
    /\ olStore = {}

\* None as a title or author filter (a string is a sequence of characters),
\* and as a year filter.
NoFilter == <<"None">>
NoYear == -1

NoQuery ==
    [op |-> "none", title |-> NoFilter, author |-> NoFilter,
     genre |-> "None", year |-> NoYear, available |-> "None", limit |-> 0,
     offset |-> 0, found |-> <<>>, total |-> 0]

\* The filters at rest.
FilterIdle ==
    /\ shelf = {}
    /\ query = NoQuery

\* No CachedOpenLibraryClient.
NoWrapper == [wid |-> 0, client |-> 0]

\* A task that asked the manager for nothing yet.
NoHandles == [client |-> 0, cached |-> NoWrapper, using |-> FALSE]

\* The clients manager after construction.
ManagerIdle ==
    /\ mgr = [openlibrary |-> 0, cached |-> NoWrapper, wrappers |-> 0,
              pc |-> "running", openAtClose |-> FALSE]
    /\ pools = <<>>
    /\ held = [t \in Tasks |-> NoHandles]

\* No register call.
IdleRegister ==
    [pc |-> "idle", email |-> "none", username |-> "none", taken |-> FALSE,
     matches |-> 0, error |-> "none", field |-> "none", id |-> 0]

\* The users table empty and no register call.
AuthIdle ==
    /\ users = {}
    /\ reg = [t \in Tasks |-> IdleRegister]

(***************************************************************************)
(* Python values a factory can produce, and their JSON texts.              *)
(***************************************************************************)
NoneV == [py |-> "None", items |-> {}]
EmptyDict == [py |-> "dict", items |-> {}]
Payload == [py |-> "dict", items |-> {"cover_url"}]

FactoryValues == {NoneV, EmptyDict, Payload}

\* json.dumps(value): the text Redis stores.
JsonDumps(v) ==
    IF v.py = "None" THEN [json |-> "null", members |-> {}]
    ELSE [json |-> "object", members |-> v.items]

\* json.loads(text): the value RedisCache.get hands back.
JsonLoads(s) ==
    IF s.json = "null" THEN NoneV
    ELSE [py |-> "dict", items |-> s.members]

(***************************************************************************)
(* InMemoryCache: a cachetools.TTLCache(maxsize, ttl).                     *)
(***************************************************************************)
\* TTLCache.expire(time): drop every entry with not (time < expires).
MemExpire(s) == SelectSeq(s, LAMBDA e : now < e.expires)

\* key in TTLCache: present and not expired.
MemContains(k) == \E i \in 1..Len(mem) : mem[i].key = k /\ now < mem[i].expires

MemEntry(k) == mem[CHOOSE i \in 1..Len(mem) : mem[i].key = k]

\* InMemoryCache.get: TTLCache.get(key) -> value, or None.
MemGet(k) == IF MemContains(k) THEN MemEntry(k).value ELSE NoneV

\* TTLCache.__getitem__ moves the link of a key it finds to the recent end.
MemTouch(k) ==
    IF MemContains(k)
    THEN Append(SelectSeq(mem, LAMBDA e : e.key # k), MemEntry(k))
    ELSE mem

\* The ttl InMemoryCache.set stores an entry with: `self._cache[key] = value`
\* uses the TTLCache's own ttl, the ttl argument only reaches the log line.
MemSetTtl(ttl) == defaultTtl

\* InMemoryCache.set: TTLCache.__setitem__ expires, evicts the least recently
\* used entries while the cache is full (new keys only), then links the key
\* at the recent end with expires = time + ttl.
MemSet(k, v, ttl) ==
    LET live == MemExpire(mem)
        rest == SelectSeq(live, LAMBDA e : e.key # k)
        isNew == Len(rest) = Len(live)
        room == IF isNew /\ Len(live) >= maxsize
                THEN SubSeq(live, Len(live) - maxsize + 2, Len(live))
                ELSE rest
    IN Append(room, [key |-> k, value |-> v, expires |-> now + MemSetTtl(ttl),
                     storedAt |-> now, ttlReq |-> ttl])

\* InMemoryCache.delete: TTLCache.pop(key, None) removes a live entry.
MemDelete(k) ==
    IF MemContains(k) THEN SelectSeq(mem, LAMBDA e : e.key # k) ELSE mem

(***************************************************************************)
(* RedisCache.                                                             *)
(***************************************************************************)
\* RedisCache._make_key
RedisMakeKey(k) == <<"library_catalog:", k>>

RedisHas(rk) == \E e \in redis : e.rkey = rk /\ now < e.expires

RedisEntry(rk) == CHOOSE e \in redis : e.rkey = rk /\ now < e.expires

\* RedisCache.get when the GET succeeds.
RedisGet(k) ==
    IF RedisHas(RedisMakeKey(k))
    THEN JsonLoads(RedisEntry(RedisMakeKey(k)).raw)
    ELSE NoneV

\* The handler of RedisCache.get returning an empty container.
RedisGetOnErrorEmptyDict == EmptyDict

\* RedisCache.get when the GET raises: `except Exception`, log, `return None`.
RedisGetOnError == NoneV

\* RedisCache.set when the SETEX succeeds.
RedisSetex(k, v, ttl) ==
    {e \in redis : e.rkey # RedisMakeKey(k)}
        \cup {[rkey |-> RedisMakeKey(k), raw |-> JsonDumps(v),
               expires |-> now + ttl, storedAt |-> now, ttlReq |-> ttl]}

\* RedisCache.delete when the DEL succeeds.
RedisDelete(k) == {e \in redis : e.rkey # RedisMakeKey(k)}

(***************************************************************************)
(* What the store holds, read off the state (not through the backends'     *)
(* get): the entry of key k that has not expired, if any.                  *)
(***************************************************************************)
Live(k) ==
    IF backend = "memory" THEN MemContains(k) ELSE RedisHas(RedisMakeKey(k))

LiveValue(k) ==
    IF backend = "memory" THEN MemEntry(k).value
    ELSE JsonLoads(RedisEntry(RedisMakeKey(k)).raw)

LiveStoredAt(k) ==
    IF backend = "memory" THEN MemEntry(k).storedAt
    ELSE RedisEntry(RedisMakeKey(k)).storedAt

LiveTtlReq(k) ==
    IF backend = "memory" THEN MemEntry(k).ttlReq
    ELSE RedisEntry(RedisMakeKey(k)).ttlReq

(***************************************************************************)
(* CacheService.get_or_set, one step per await.                            *)
(***************************************************************************)
IdleFrame == CacheIdleFrame

\* The test with truthiness in place of `is not None`.
IsHitTruthy(cached) == cached.py # "None" /\ cached.items # {}

\* `if cached is not None: return cached` in get_or_set.
IsHit(cached) == cached.py # "None"

\* `if value is not None` before backend.set.
ShouldStore(value) == value.py # "None"

CacheInit ==
    /\ UowIdle
    /\ BookIdle
    /\ ClientIdle
    /\ FilterIdle
    /\ ManagerIdle
    /\ AuthIdle
    /\ backend \in {"memory", "redis"}
    /\ defaultTtl \in 1..MaxDefaultTtl
    /\ maxsize \in 1..MaxSize
    /\ backend = "redis" => defaultTtl = 1 /\ maxsize = 1
    /\ mem = <<>>
    /\ redis = {}
    /\ now = 0
    /\ gos = [t \in Tasks |-> IdleFrame]
    /\ inv = [k \in Keys |-> "no"]

\* A task calls get_or_set(key, factory, ttl).
GetOrSetCall(t) ==
    /\ gos[t].pc = "idle"
    /\ \E k \in Keys, ttl \in 1..MaxTtl :
          gos' = [gos EXCEPT ![t] = [IdleFrame EXCEPT
                     !.pc = "get", !.key = k, !.ttl = ttl]]
    /\ UNCHANGED <<backend, defaultTtl, maxsize, mem, redis, now, inv>>
    /\ UNCHANGED nonCacheVars

\* cached = await self.backend.get(key); return it when it is not None.
\* A Redis GET may raise: RedisCache.get logs it and returns None.
BackendGet(t) ==
    /\ gos[t].pc = "get"
    /\ \E failed \in (IF backend = "redis" THEN BOOLEAN ELSE {FALSE}) :
          LET k == gos[t].key
              cached == IF failed THEN RedisGetOnError
                        ELSE IF backend = "memory" THEN MemGet(k)
                        ELSE RedisGet(k)
              seen == [gos[t] EXCEPT
                         !.wasLive = Live(k),
                         !.liveValue = IF Live(k) THEN LiveValue(k) ELSE NoneV,
                         !.age = IF Live(k) THEN now - LiveStoredAt(k) ELSE 0,
                         !.ttlReq = IF Live(k) THEN LiveTtlReq(k) ELSE 0,
                         !.readFailed = failed]
          IN /\ IF IsHit(cached)
                THEN gos' = [gos EXCEPT ![t] = [seen EXCEPT
                                !.pc = "done", !.value = cached, !.hit = TRUE]]
                ELSE gos' = [gos EXCEPT ![t] = [seen EXCEPT !.pc = "factory"]]
             /\ mem' = IF backend = "memory" /\ ~failed THEN MemTouch(k) ELSE mem
    /\ UNCHANGED <<backend, defaultTtl, maxsize, redis, now, inv>>
    /\ UNCHANGED nonCacheVars

\* value = await factory(): the factory returns a value or raises.
Factory(t) ==
    /\ gos[t].pc = "factory"
    /\ \/ \E v \in FactoryValues :
            gos' = [gos EXCEPT ![t].value = v, ![t].computed = TRUE,
                               ![t].pc = IF ShouldStore(v) THEN "set" ELSE "done"]
       \/ gos' = [gos EXCEPT ![t].pc = "raised"]
    /\ UNCHANGED <<backend, defaultTtl, maxsize, mem, redis, now, inv>>
    /\ UNCHANGED nonCacheVars

\* await self.backend.set(key, value, ttl); return value.
\* A Redis SETEX may raise: RedisCache.set logs it and stores nothing.
BackendSet(t) ==
    /\ gos[t].pc = "set"
    /\ LET k == gos[t].key
           v == gos[t].value
       IN \/ /\ backend = "memory"
             /\ mem' = MemSet(k, v, gos[t].ttl)
             /\ inv' = [inv EXCEPT ![k] = "no"]
             /\ gos' = [gos EXCEPT ![t].pc = "done", ![t].stored = TRUE,
                                   ![t].cacheKept = (mem' = mem)]
             /\ UNCHANGED redis
          \/ /\ backend = "redis"
             /\ redis' = RedisSetex(k, v, gos[t].ttl)
             /\ inv' = [inv EXCEPT ![k] = "no"]
             /\ gos' = [gos EXCEPT ![t].pc = "done", ![t].stored = TRUE,
                                   ![t].cacheKept = (redis' = redis)]
             /\ UNCHANGED mem
          \/ /\ backend = "redis"
             /\ UNCHANGED <<mem, redis, inv>>
             /\ gos' = [gos EXCEPT ![t].pc = "done", ![t].writeFailed = TRUE,
                                   ![t].cacheKept = (redis' = redis)]
    /\ UNCHANGED <<backend, defaultTtl, maxsize, now>>
    /\ UNCHANGED nonCacheVars

\* The call has returned (or raised) to its caller.
GetOrSetReturn(t) ==
    /\ gos[t].pc \in {"done", "raised"}
    /\ gos' = [gos EXCEPT ![t] = IdleFrame]
    /\ UNCHANGED <<backend, defaultTtl, maxsize, mem, redis, now, inv>>
    /\ UNCHANGED nonCacheVars

\* CacheService.invalidate(key): await self.backend.delete(key).
\* A Redis DEL may raise: RedisCache.delete logs it and deletes nothing.
Invalidate(k) ==
    /\ \/ /\ backend = "memory"
          /\ mem' = MemDelete(k)
          /\ inv' = [inv EXCEPT ![k] = "ok"]
          /\ UNCHANGED redis
       \/ /\ backend = "redis"
          /\ redis' = RedisDelete(k)
          /\ inv' = [inv EXCEPT ![k] = "ok"]
          /\ UNCHANGED mem
       \/ /\ backend = "redis"
          /\ inv' = [inv EXCEPT ![k] = "failed"]
          /\ UNCHANGED <<mem, redis>>
    /\ UNCHANGED <<backend, defaultTtl, maxsize, now, gos>>
    /\ UNCHANGED nonCacheVars

\* The glob patterns invalidate_pattern is called with.
Patterns == {"k1", "k*"}

\* The keys a glob pattern matches (Redis KEYS prefix + pattern).
PatternKeys(p) == IF p = "k*" THEN Keys ELSE {k \in Keys : k = p}

\* What invalidate_pattern does to an InMemoryCache: a debug log line.
MemInvalidatePattern(p) == mem

\* What invalidate_pattern does to a RedisCache when KEYS and DEL succeed.
RedisInvalidatePattern(p) ==
    {e \in redis : \A k \in PatternKeys(p) : e.rkey # RedisMakeKey(k)}

\* CacheService.invalidate_pattern(pattern): on a RedisCache KEYS and DEL of
\* the matching keys, any error logged and swallowed; on any other backend
\* the call only logs.
InvalidatePattern(p) ==
    /\ \/ /\ backend = "memory"
          /\ mem' = MemInvalidatePattern(p)
          /\ inv' = [k \in Keys |-> IF k \in PatternKeys(p) THEN "unsupported"
                                    ELSE inv[k]]
          /\ UNCHANGED redis
       \/ /\ backend = "redis"
          /\ redis' = RedisInvalidatePattern(p)
          /\ inv' = [k \in Keys |-> IF k \in PatternKeys(p) THEN "ok"
                                    ELSE inv[k]]
          /\ UNCHANGED mem
       \/ /\ backend = "redis"
          /\ inv' = [k \in Keys |-> IF k \in PatternKeys(p) THEN "failed"
                                    ELSE inv[k]]
          /\ UNCHANGED <<mem, redis>>
    /\ UNCHANGED <<backend, defaultTtl, maxsize, now, gos>>
    /\ UNCHANGED nonCacheVars

\* Time passes.
Tick ==
    /\ now < MaxTime
    /\ now' = now + 1
    /\ UNCHANGED <<backend, defaultTtl, maxsize, mem, redis, gos, inv>>
    /\ UNCHANGED nonCacheVars

CacheNext ==
    \/ \E t \in CacheTasks : GetOrSetCall(t)
    \/ \E t \in CacheTasks : BackendGet(t)
    \/ \E t \in CacheTasks : Factory(t)
    \/ \E t \in CacheTasks : BackendSet(t)
    \/ \E t \in CacheTasks : GetOrSetReturn(t)
    \/ \E k \in Keys : Invalidate(k)
    \/ \E p \in Patterns : InvalidatePattern(p)
    \/ Tick

CacheSpec == CacheInit /\ [][CacheNext]_vars

(***************************************************************************)
(* Claims about the cache.                                                 *)
(***************************************************************************)
\* A get_or_set call that has done its lookup.
LookedUp(t) == gos[t].pc \in {"factory", "set", "done", "raised"}

\* C2 as stated: a get_or_set whose lookup happens while the entry of its key
\* is live returns the stored value without invoking the factory, a lookup
\* that finds no live entry goes on to the factory, and after invalidate(key)
\* no entry of the key is live until the next store.
ClaimC2_LiveEntryNeverRecomputed ==
    /\ \A t \in CacheTasks :
          LookedUp(t) =>
             /\ gos[t].wasLive =>
                   gos[t].hit /\ gos[t].pc = "done"
                              /\ gos[t].value = gos[t].liveValue
             /\ ~gos[t].wasLive => ~gos[t].hit
    /\ \A k \in Keys : inv[k] \in {"ok", "failed"} => ~Live(k)

\* C2, amended: the same, for lookups the backend answers and invalidations
\* the backend carries out (RedisCache turns a failed GET into a miss and a
\* failed DEL into a no-op).
TheoremC2_LiveEntryNeverRecomputed ==
    /\ \A t \in CacheTasks :
          LookedUp(t) =>
             /\ gos[t].wasLive /\ ~gos[t].readFailed =>
                   gos[t].hit /\ gos[t].pc = "done"
                              /\ gos[t].value = gos[t].liveValue
             /\ ~gos[t].wasLive => ~gos[t].hit
    /\ \A k \in Keys : inv[k] = "ok" => ~Live(k)

\* C2 witness: a call has returned a stored value from a live entry.
WitnessC2_HitOnLiveEntry ==
    \E t \in CacheTasks :
        gos[t].pc = "done" /\ gos[t].hit /\ gos[t].wasLive
            /\ gos[t].value = Payload

\* C3 as stated: no entry holding an empty or absent result (None or {}) is
\* ever stored, on either backend.
ClaimC3_EmptyResultNeverCached ==
    \A k \in Keys : Live(k) => LiveValue(k) \notin {NoneV, EmptyDict}

\* C10 as stated: no get returns as a hit an entry stored with time-to-live t
\* more than t time units after it was stored.
ClaimC10_ExpiredNeverHit ==
    \A t \in CacheTasks : gos[t].hit => gos[t].age <= gos[t].ttlReq

\* C12 as stated: after invalidate_pattern(pattern) has gone through on either
\* backend (by deleting the matching keys on RedisCache, by clearing the
\* cache on InMemoryCache), no entry whose key matches the pattern is live
\* until the next store.
ClaimC12_NoMatchingEntryRemains ==
    \A k \in Keys : inv[k] \in {"ok", "unsupported"} => ~Live(k)

\* C11: a Redis failure never leaves the cache layer. A get_or_set whose
\* backend read failed goes on as on a miss (it never returns a hit, the
\* factory is invoked, and what it returns is the factory's value); one whose
\* backend write failed has left the cache as it was and returns the computed
\* value.
TheoremC11_BackendFailureSwallowed ==
    \A t \in CacheTasks :
        /\ gos[t].readFailed /\ LookedUp(t) =>
              /\ ~gos[t].hit
              /\ gos[t].pc \in {"set", "done"} =>
                    gos[t].computed /\ gos[t].value \in FactoryValues
        /\ gos[t].writeFailed =>
              /\ gos[t].cacheKept
              /\ gos[t].pc = "done"
              /\ gos[t].computed /\ gos[t].value \in FactoryValues \ {NoneV}

\* C11 witness: a call whose read failed although the entry was live, and
\* whose write failed too, has returned the computed value.
WitnessC11_ReadAndWriteFailed ==
    \E t \in CacheTasks :
        /\ gos[t].pc = "done"
        /\ gos[t].readFailed /\ gos[t].wasLive
        /\ gos[t].writeFailed /\ gos[t].cacheKept
        /\ gos[t].value = Payload

(***************************************************************************)
(* The Unit of Work and the repositories bound to its session.             *)
(* A session's `work` is the rows as the session sees them: the committed  *)
(* rows plus its own uncommitted writes. commit makes `work` the committed *)
(* rows; rollback and close discard the uncommitted writes.                *)
(***************************************************************************)
SessionsMade == Cardinality({i \in 1..MaxSessions : sessions[i].status # "none"})

OpenSessions == {i \in 1..MaxSessions : sessions[i].status = "open"}

\* The session a repository was constructed with (BaseRepository.__init__).
RepoSession(repo) == IF repo = "books" THEN booksSession ELSE usersSession

RepoRows(repo) == IF repo = "books" THEN BookRows ELSE UserRows

Repos == {"books", "users"}

\* UnitOfWork.__aexit__: `if exc_type is not None: await self.rollback()`,
\* then the close.
AexitFirstStep(exc) == IF exc # "none" THEN "exit_rollback" ELSE "exit_close"

UowInit ==
    /\ UowIdle
    /\ CacheIdle
    /\ BookIdle
    /\ ClientIdle
    /\ FilterIdle
    /\ ManagerIdle
    /\ AuthIdle

\* UnitOfWork.__aenter__: a new session from the factory, and one repository
\* of each kind constructed with it.
AEnter ==
    /\ scope.pc \in {"new", "exited"}
    /\ SessionsMade < MaxSessions
    /\ LET sid == SessionsMade + 1
       IN /\ sessions' = [sessions EXCEPT ![sid] = [status |-> "open", work |-> db]]
          /\ uowSession' = sid
          /\ booksSession' = sid
          /\ usersSession' = sid
          /\ scope' = [NewScope EXCEPT !.pc = "body", !.sid = sid, !.entryDb = db]
    /\ UNCHANGED db
    /\ UNCHANGED nonUowVars

\* BaseRepository.create: session.add, await session.commit(), refresh.
\* The commit may raise a persistence error, which leaves the scope.
RepoCreate(repo) ==
    /\ scope.pc = "body"
    /\ scope.ops < MaxOps
    /\ \E r \in RepoRows(repo), c \in Contents, committed \in BOOLEAN :
          LET sid == RepoSession(repo)
              added == [sessions[sid].work EXCEPT ![r] = c]
          IN /\ sessions[sid].work[r] = "absent"
             /\ sessions' = [sessions EXCEPT ![sid].work = added]
             /\ IF committed
                THEN /\ db' = added
                     /\ scope' = [scope EXCEPT !.ops = @ + 1, !.repoCommits = @ + 1]
                ELSE /\ db' = db
                     /\ scope' = [scope EXCEPT !.ops = @ + 1, !.exc = "error",
                                               !.pc = AexitFirstStep("error")]
    /\ UNCHANGED <<uowSession, booksSession, usersSession>>
    /\ UNCHANGED nonUowVars

\* BaseRepository.update: get_by_id; None when the row is unknown, otherwise
\* setattr, await session.commit(), refresh.
RepoUpdate(repo) ==
    /\ scope.pc = "body"
    /\ scope.ops < MaxOps
    /\ \E r \in RepoRows(repo), c \in Contents :
          LET sid == RepoSession(repo)
              changed == [sessions[sid].work EXCEPT ![r] = c]
          IN IF sessions[sid].work[r] = "absent"
             THEN /\ scope' = [scope EXCEPT !.ops = @ + 1, !.result = 0]
                  /\ UNCHANGED <<db, sessions>>
             ELSE /\ sessions' = [sessions EXCEPT ![sid].work = changed]
                  /\ db' = changed
                  /\ scope' = [scope EXCEPT !.ops = @ + 1, !.repoCommits = @ + 1,
                                            !.result = 1]
    /\ UNCHANGED <<uowSession, booksSession, usersSession>>
    /\ UNCHANGED nonUowVars

\* BaseRepository.delete: get_by_id; False when the row is unknown, otherwise
\* session.delete, await session.commit().
RepoDelete(repo) ==
    /\ scope.pc = "body"
    /\ scope.ops < MaxOps
    /\ \E r \in RepoRows(repo) :
          LET sid == RepoSession(repo)
              removed == [sessions[sid].work EXCEPT ![r] = "absent"]
          IN IF sessions[sid].work[r] = "absent"
             THEN /\ scope' = [scope EXCEPT !.ops = @ + 1, !.result = 0]
                  /\ UNCHANGED <<db, sessions>>
             ELSE /\ sessions' = [sessions EXCEPT ![sid].work = removed]
                  /\ db' = removed
                  /\ scope' = [scope EXCEPT !.ops = @ + 1, !.repoCommits = @ + 1,
                                            !.result = 1]
    /\ UNCHANGED <<uowSession, booksSession, usersSession>>
    /\ UNCHANGED nonUowVars

\* The read-only queries (get_by_id, get_all, count, find_by_*): here count().
RepoCount(repo) ==
    /\ scope.pc = "body"
    /\ scope.ops < MaxOps
    /\ LET sid == RepoSession(repo)
       IN scope' = [scope EXCEPT
                       !.ops = @ + 1,
                       !.result = Cardinality({r \in RepoRows(repo) :
                                                  sessions[sid].work[r] # "absent"})]
    /\ UNCHANGED <<db, sessions, uowSession, booksSession, usersSession>>
    /\ UNCHANGED nonUowVars

\* UnitOfWork.commit: `if self._session is not None: await session.commit()`.
UowCommit ==
    /\ scope.pc = "body"
    /\ scope.ops < MaxOps
    /\ uowSession # 0
    /\ db' = sessions[uowSession].work
    /\ scope' = [scope EXCEPT !.ops = @ + 1, !.uowCommits = @ + 1]
    /\ UNCHANGED <<sessions, uowSession, booksSession, usersSession>>
    /\ UNCHANGED nonUowVars

\* UnitOfWork.rollback called by the body.
UowRollback ==
    /\ scope.pc = "body"
    /\ scope.ops < MaxOps
    /\ uowSession # 0
    /\ sessions' = [sessions EXCEPT ![uowSession].work = db]
    /\ scope' = [scope EXCEPT !.ops = @ + 1]
    /\ UNCHANGED <<db, uowSession, booksSession, usersSession>>
    /\ UNCHANGED nonUowVars

\* The body of the scope ends normally: __aexit__(None, None, None).
BodyEnd ==
    /\ scope.pc = "body"
    /\ scope' = [scope EXCEPT !.pc = AexitFirstStep("none")]
    /\ UNCHANGED <<db, sessions, uowSession, booksSession, usersSession>>
    /\ UNCHANGED nonUowVars

\* The body raises: __aexit__(exc_type, ...).
BodyRaise ==
    /\ scope.pc = "body"
    /\ scope' = [scope EXCEPT !.exc = "error", !.pc = AexitFirstStep("error")]
    /\ UNCHANGED <<db, sessions, uowSession, booksSession, usersSession>>
    /\ UNCHANGED nonUowVars

\* The task is cancelled while the body awaits: CancelledError is raised in
\* the body and reaches __aexit__ as its exception.
CancelInBody ==
    /\ scope.pc = "body"
    /\ scope' = [scope EXCEPT !.exc = "cancelled", !.cancelled = TRUE,
                              !.pc = AexitFirstStep("cancelled")]
    /\ UNCHANGED <<db, sessions, uowSession, booksSession, usersSession>>
    /\ UNCHANGED nonUowVars

\* `await self.rollback()` in __aexit__ completes.
ExitRollback ==
    /\ scope.pc = "exit_rollback"
    /\ uowSession # 0
    /\ sessions' = [sessions EXCEPT ![uowSession].work = db]
    /\ scope' = [scope EXCEPT !.pc = "exit_close", !.rolledBack = TRUE,
                              !.trace = Append(@, "rollback")]
    /\ UNCHANGED <<db, uowSession, booksSession, usersSession>>
    /\ UNCHANGED nonUowVars

\* `await self.rollback()` in __aexit__ raises (the connection is lost): the
\* exception leaves __aexit__, nothing after the await runs.
ExitRollbackRaises ==
    /\ scope.pc = "exit_rollback"
    /\ scope' = [scope EXCEPT !.pc = "exited"]
    /\ UNCHANGED <<db, sessions, uowSession, booksSession, usersSession>>
    /\ UNCHANGED nonUowVars

\* The task is cancelled while __aexit__ awaits the rollback or the close:
\* CancelledError leaves __aexit__ at that await, nothing after it runs. The
\* awaited operation itself may or may not have taken effect.
CancelInExit ==
    /\ scope.pc \in {"exit_rollback", "exit_close"}
    /\ uowSession # 0
    /\ \E done \in BOOLEAN :
          /\ sessions' =
                IF ~done THEN sessions
                ELSE IF scope.pc = "exit_rollback"
                THEN [sessions EXCEPT ![uowSession].work = db]
                ELSE [sessions EXCEPT ![uowSession] =
                         [status |-> "closed", work |-> NoRows]]
          /\ scope' = [scope EXCEPT
                          !.pc = "exited", !.cancelled = TRUE,
                          !.rolledBack = @ \/ (done /\ scope.pc = "exit_rollback")]
    /\ UNCHANGED <<db, uowSession, booksSession, usersSession>>
    /\ UNCHANGED nonUowVars

\* `if self._session is not None: await self._session.close();
\*  self._session = None` completes.
ExitClose ==
    /\ scope.pc = "exit_close"
    /\ IF uowSession # 0
       THEN /\ sessions' = [sessions EXCEPT ![uowSession] =
                               [status |-> "closed", work |-> NoRows]]
            /\ uowSession' = 0
            /\ scope' = [scope EXCEPT !.pc = "exited",
                                      !.trace = Append(@, "close")]
       ELSE /\ scope' = [scope EXCEPT !.pc = "exited"]
            /\ UNCHANGED <<sessions, uowSession>>
    /\ UNCHANGED <<db, booksSession, usersSession>>
    /\ UNCHANGED nonUowVars

UowNext ==
    \/ AEnter
    \/ \E repo \in Repos : RepoCreate(repo)
    \/ \E repo \in Repos : RepoUpdate(repo)
    \/ \E repo \in Repos : RepoDelete(repo)
    \/ \E repo \in Repos : RepoCount(repo)
    \/ UowCommit
    \/ UowRollback
    \/ BodyEnd
    \/ BodyRaise
    \/ CancelInBody
    \/ ExitRollback
    \/ ExitRollbackRaises
    \/ CancelInExit
    \/ ExitClose

UowSpec == UowInit /\ [][UowNext]_vars

(***************************************************************************)
(* Claims about the Unit of Work.                                          *)
(***************************************************************************)
InScope == scope.pc \in {"body", "exit_rollback", "exit_close"}

\* C5 as stated: no repository operation commits; within a scope only
\* UnitOfWork.commit commits the session.
ClaimC5_RepositoriesNeverCommit == scope.repoCommits = 0

\* C6 as stated: while UnitOfWork.commit has not been called in the scope, the
\* durable rows are those the scope found on entry, also after the scope has
\* exited (by a failure or otherwise).
ClaimC6_NothingDurableBeforeCommit ==
    scope.pc # "new" /\ scope.uowCommits = 0 => db = scope.entryDb

\* C7 as stated: after every exit of the scope the session is closed and the
\* UnitOfWork holds none, and an exit by a failure has rolled back and then
\* closed.
ClaimC7_ExitRollsBackThenCloses ==
    scope.pc = "exited" =>
        /\ uowSession = 0
        /\ sessions[scope.sid].status = "closed"
        /\ scope.trace = IF scope.exc # "none" THEN <<"rollback", "close">>
                         ELSE <<"close">>

\* C8 as stated: a scope left under cancellation, at whatever await, has been
\* rolled back and its session released.
ClaimC8_CancelledExitCompletes ==
    scope.pc = "exited" /\ scope.cancelled =>
        /\ scope.rolledBack
        /\ sessions[scope.sid].status = "closed"
        /\ uowSession = 0

\* C9 as stated: inside the scope the UnitOfWork owns exactly one session and
\* both repositories are bound to it; before entry and after exit it holds
\* no session.
ClaimC9_OneSessionInScope ==
    /\ InScope =>
          /\ uowSession # 0
          /\ OpenSessions = {uowSession}
          /\ booksSession = uowSession
          /\ usersSession = uowSession
    /\ scope.pc \in {"new", "exited"} => uowSession = 0

(***************************************************************************)
(* BookService over the books table.                                       *)
(* Every request runs in its own session (get_db); its queries read the    *)
(* committed rows, and what it writes is flushed and committed by the      *)
(* commit inside BaseRepository.create, update and delete.                 *)
(* A row is [id, title, year, pages, isbn, extra, created_at, updated_at]; *)
(* title stands for the client fields no rule looks at. Timestamps are     *)
(* logical: updated_at counts the UPDATE statements the row has seen.      *)
(* The update requests offer one new title and one new isbn, so a row sees *)
(* two effective UPDATEs at most.                                          *)
(***************************************************************************)
\* An ISBN is a string: a sequence of characters.
Digits == {"0", "1", "2", "3", "4", "5", "6", "7", "8", "9"}

Isbn13Dashed == <<"9", "7", "8", "-", "0", "1", "3", "2", "3", "5", "0", "8", "8", "4">>
Isbn13Plain == <<"9", "7", "8", "0", "1", "3", "2", "3", "5", "0", "8", "8", "4">>
Isbn10X == <<"0", "8", "0", "4", "4", "2", "9", "5", "7", "X">>
IsbnShort == <<"9", "7", "8", "-", "0", "1", "3", "2", "3", "5">>
IsbnLetters == <<"9", "7", "8", "-", "0", "1", "3", "2", "3", "5", "0", "8", "A", "B">>

IsbnCandidates == {Isbn13Dashed, Isbn13Plain, Isbn10X, IsbnShort, IsbnLetters}

\* v.replace("-", "").replace(" ", ""): the normal form of an ISBN.
CleanIsbn(v) == SelectSeq(v, LAMBDA c : c \notin {"-", " "})

\* BookCreate.validate_isbn accepts v: the clean form holds only digits (and
\* X or x) and is 10 or 13 characters long; Field(min_length, max_length)
\* bounds the raw string.
IsbnAccepted(v) ==
    LET clean == CleanIsbn(v)
        digits == SelectSeq(clean, LAMBDA c : c \notin {"X", "x"})
    IN /\ Len(v) >= 10 /\ Len(v) <= 20
       /\ Len(digits) > 0
       /\ \A i \in 1..Len(digits) : digits[i] \in Digits
       /\ Len(clean) \in {10, 13}

\* What BookCreate.validate_isbn returns for an accepted v: `return v`.
IsbnValidated(v) == v

\* The isbn values a BookCreate can carry: None (the empty string here is
\* None; both are falsy in `if book_data.isbn`) or an accepted string.
IsbnInputs == {NoIsbn} \cup {IsbnValidated(v) : v \in {c \in IsbnCandidates : IsbnAccepted(c)}}

\* The years and page counts a BookCreate can carry: Field(ge=1000, le=2100)
\* and Field(gt=0).
YearInputs == {2008, CurrentYear + 1}
PagesInputs == {464}

\* What a create request can carry before the schema has looked at it: the
\* above, a year beyond the schema's range, a page count of zero.
RawCreateInputs ==
    {[year |-> y, pages |-> p, isbn |-> i] :
        y \in YearInputs, p \in PagesInputs, i \in IsbnInputs}
    \cup {[year |-> 3000, pages |-> 100, isbn |-> NoIsbn],
          [year |-> 2008, pages |-> 0, isbn |-> NoIsbn]}

\* BookBase: year Field(ge=1000, le=2100), pages Field(gt=0).
SchemaAccepts(year, pages) == year >= 1000 /\ year <= 2100 /\ pages > 0

\* The errors that report a rejected field value: the schema's (status 422)
\* and the service's (status 400).
ValidationErrors ==
    {"RequestValidationError", "InvalidYearException", "InvalidPagesException"}

\* The errors the persistence layer raises.
PersistenceErrors == {"IntegrityError", "OperationalError"}

\* NotFoundException with the default status of AppException.
StatusCodeDefaultOnly(error) == 400

\* The status_code each exception class carries (AppException subclasses),
\* 422 for the schema's rejection, 500 for anything unhandled.
StatusCode(error) ==
    CASE error = "BookNotFoundException" -> 404
      [] error = "BookAlreadyExistsException" -> 409
      [] error \in {"InvalidYearException", "InvalidPagesException"} -> 400
      [] error = "RequestValidationError" -> 422
      [] OTHER -> 500

\* BookService._validate_book_data: _validate_year, then _validate_pages.
ValidateBookData(year, pages) ==
    IF year < 1000 \/ year > CurrentYear THEN "InvalidYearException"
    ELSE IF pages <= 0 THEN "InvalidPagesException"
    ELSE "ok"

\* BookRepository.find_by_isbn: select(Book).where(Book.isbn == isbn).
FindByIsbn(isbn) == {b \in books : b.isbn = isbn}

\* BaseRepository.get_by_id: session.get(Book, id).
GetById(id) == {b \in books : b.id = id}

\* A table without the unique index.
NoUniqueIndex(rows, id, isbn) == FALSE

\* Book.isbn is unique=True: the database rejects a row (id, isbn) when
\* another row holds the same non-null isbn.
UniqueViolation(rows, id, isbn) ==
    isbn # NoIsbn /\ \E b \in rows : b.id # id /\ b.isbn = isbn

\* The step after validation, without the uniqueness check.
AfterValidateSkipCheck(isbn) == "enrich"

\* `if book_data.isbn:` the uniqueness check, else straight to enrichment.
AfterValidate(isbn) == IF isbn # NoIsbn THEN "find_by_isbn" ELSE "enrich"

\* What the enrichment client's enrich call can end with.
EnrichOutcomes ==
    {"payload", "empty", "OpenLibraryException",
     "OpenLibraryTimeoutException", "OtherException"}

\* The handler without the timeout class.
CaughtOnlyServiceError(outcome) == outcome \in {"OpenLibraryException"}

\* `except (OpenLibraryException, OpenLibraryTimeoutException)` in
\* BookService._enrich_book_data.
CaughtByEnrichBookData(outcome) ==
    outcome \in {"OpenLibraryException", "OpenLibraryTimeoutException"}

\* `return extra if extra else None`.
ExtraOf(outcome) == IF outcome = "payload" THEN "payload" ELSE "None"

BookInit ==
    /\ BookIdle
    /\ CacheIdle
    /\ UowIdle
    /\ ClientIdle
    /\ FilterIdle
    /\ ManagerIdle
    /\ AuthIdle

\* The create requests of CatalogSpec: those without an isbn or with the
\* plain one.
CatalogCreateInputs ==
    {in \in RawCreateInputs : in.isbn \in {NoIsbn, Isbn13Plain}}

\* POST /books: the BookCreate schema, then create_book(book_data):
\* _validate_book_data, then `if book_data.isbn`.
CreateBook(t, inputs) ==
    /\ req[t].pc = "idle"
    /\ \E in \in inputs :
          LET verdict == ValidateBookData(in.year, in.pages)
              frame == [IdleRequest EXCEPT
                           !.op = "create", !.year = in.year,
                           !.pages = in.pages, !.isbn = in.isbn]
          IN req' = [req EXCEPT ![t] =
                        IF ~SchemaAccepts(in.year, in.pages)
                        THEN [frame EXCEPT !.pc = "failed",
                                           !.error = "RequestValidationError"]
                        ELSE IF verdict # "ok"
                        THEN [frame EXCEPT !.pc = "failed", !.error = verdict,
                                           !.trace = <<"validate">>]
                        ELSE [frame EXCEPT !.pc = AfterValidate(in.isbn),
                                           !.trace = <<"validate">>]]
    /\ UNCHANGED <<books, nextId>>
    /\ UNCHANGED nonBookVars

CreateBookCall(t) == CreateBook(t, RawCreateInputs)

CatalogCreateCall(t) == CreateBook(t, CatalogCreateInputs)

\* existing = await self.book_repo.find_by_isbn(book_data.isbn);
\* raise BookAlreadyExistsException when a row is found.
CheckUnique(t) ==
    /\ req[t].pc = "find_by_isbn"
    /\ LET isbn == req[t].isbn
           seen == [req[t] EXCEPT
                       !.trace = Append(@, "find_by_isbn"),
                       !.dupAtCheck =
                           \E b \in books :
                               /\ b.isbn # NoIsbn
                               /\ CleanIsbn(b.isbn) = CleanIsbn(isbn)]
       IN req' = [req EXCEPT ![t] =
                     IF FindByIsbn(isbn) # {}
                     THEN [seen EXCEPT !.pc = "failed",
                                       !.error = "BookAlreadyExistsException"]
                     ELSE [seen EXCEPT !.pc = "enrich"]]
    /\ UNCHANGED <<books, nextId>>
    /\ UNCHANGED nonBookVars

\* extra = await self._enrich_book_data(book_data).
EnrichBookData(t) ==
    /\ req[t].pc = "enrich"
    /\ \E outcome \in EnrichOutcomes :
          LET called == [req[t] EXCEPT !.trace = Append(@, "enrich"),
                                       !.enrich = outcome]
          IN req' = [req EXCEPT ![t] =
                        IF outcome \in {"payload", "empty"}
                              \/ CaughtByEnrichBookData(outcome)
                        THEN [called EXCEPT !.pc = "create",
                                            !.extra = ExtraOf(outcome)]
                        ELSE [called EXCEPT !.pc = "failed",
                                            !.error = outcome]]
    /\ UNCHANGED <<books, nextId>>
    /\ UNCHANGED nonBookVars

\* A row built without the isbn of the request.
NewBookNoIsbn(id, frame) ==
    [id |-> id, title |-> "A", year |-> frame.year, pages |-> frame.pages,
     isbn |-> NoIsbn, extra |-> frame.extra, created_at |-> 0,
     updated_at |-> 0]

\* The row create_book hands to book_repo.create: the fields of the request
\* as they are, the enrichment payload, a fresh primary key, and the
\* server's timestamps.
NewBook(id, frame) ==
    [id |-> id, title |-> "A", year |-> frame.year, pages |-> frame.pages,
     isbn |-> frame.isbn, extra |-> frame.extra, created_at |-> 0,
     updated_at |-> 0]

\* book = await self.book_repo.create(...): session.add and the commit of
\* BaseRepository.create. The unique index on isbn rejects a row whose isbn
\* is already committed (IntegrityError); the commit can also fail for the
\* database's own reasons (OperationalError). Neither leaves a row.
RepoCreateBook(t) ==
    /\ req[t].pc = "create"
    /\ nextId <= MaxBooks
    /\ LET row == NewBook(nextId, req[t])
           tried == [req[t] EXCEPT !.trace = Append(@, "create")]
       IN \/ /\ UniqueViolation(books, row.id, row.isbn)
             /\ req' = [req EXCEPT ![t] = [tried EXCEPT
                           !.pc = "failed", !.error = "IntegrityError"]]
             /\ UNCHANGED <<books, nextId>>
          \/ /\ ~UniqueViolation(books, row.id, row.isbn)
             /\ books' = books \cup {row}
             /\ nextId' = nextId + 1
             /\ req' = [req EXCEPT ![t] = [tried EXCEPT
                           !.pc = "refresh", !.id = row.id,
                           !.commits = @ + 1, !.writes = @ + 1]]
          \/ /\ req' = [req EXCEPT ![t] = [tried EXCEPT
                           !.pc = "failed", !.error = "OperationalError"]]
             /\ UNCHANGED <<books, nextId>>
    /\ UNCHANGED nonBookVars

\* await self.session.refresh(instance) in BaseRepository.create and update:
\* a SELECT of the row, which can fail (OperationalError).
RepoRefreshBook(t) ==
    /\ req[t].pc = "refresh"
    /\ \/ req' = [req EXCEPT ![t].pc = "commit",
                             ![t].trace = Append(@, "refresh")]
       \/ req' = [req EXCEPT ![t].pc = "failed",
                             ![t].error = "OperationalError",
                             ![t].trace = Append(@, "refresh")]
    /\ UNCHANGED <<books, nextId>>
    /\ UNCHANGED nonBookVars

\* await self.book_repo.session.commit() in the service, then the mapping
\* (BookMapper.to_show_book) or, for delete_book, the return. The commit
\* can fail after a refresh has begun a new transaction.
ServiceCommit(t) ==
    /\ req[t].pc = "commit"
    /\ \/ req' = [req EXCEPT ![t].pc = "done", ![t].commits = @ + 1,
                             ![t].trace = IF req[t].op = "delete"
                                          THEN Append(@, "commit")
                                          ELSE @ \o <<"commit", "map">>]
       \/ /\ req[t].op # "delete"
          /\ req' = [req EXCEPT ![t].pc = "failed",
                                ![t].error = "OperationalError",
                                ![t].trace = Append(@, "commit")]
    /\ UNCHANGED <<books, nextId>>
    /\ UNCHANGED nonBookVars

\* The BookUpdate bodies a PATCH can carry before the schema has looked at
\* them: nothing set, a title, an isbn, a year after the current one, a page
\* count of zero.
RawUpdateInputs ==
    {NoUpdate,
     [NoUpdate EXCEPT !.fields = {"title"}, !.title = "B"],
     [NoUpdate EXCEPT !.fields = {"isbn"}, !.isbn = Isbn13Plain],
     [NoUpdate EXCEPT !.fields = {"year"}, !.year = CurrentYear + 1],
     [NoUpdate EXCEPT !.fields = {"pages"}, !.pages = 0]}

\* The ids a request can name: those the table can hand out.
BookIds == 1..MaxBooks

\* BookUpdate: year Field(None, ge=1000, le=2100), pages Field(None, gt=0);
\* title and isbn are not constrained beyond their type.
SchemaAcceptsUpdate(data) ==
    /\ "year" \in data.fields => data.year >= 1000 /\ data.year <= 2100
    /\ "pages" \in data.fields => data.pages > 0

\* update_book without the year and pages rules.
ValidateUpdateNone(data) == "ok"

\* update_book: `if book_data.year is not None: self._validate_year(...)`,
\* `if book_data.pages is not None: self._validate_pages(...)`.
ValidateUpdate(data) ==
    IF "year" \in data.fields
          /\ (data.year < 1000 \/ data.year > CurrentYear)
    THEN "InvalidYearException"
    ELSE IF "pages" \in data.fields /\ data.pages <= 0
    THEN "InvalidPagesException"
    ELSE "ok"

\* book_data.model_dump(exclude_unset=True): the fields the request set.
ModelDump(data) == data.fields

\* The test that never finds the update empty.
IsEmptyUpdateNever(data) == FALSE

\* `if not update_data:` in update_book.
IsEmptyUpdate(data) == ModelDump(data) = {}

\* The client fields of a row that the model carries.
ClientFields == {"title", "year", "pages", "isbn"}

\* setattr for every field of the BookUpdate, set or not.
SetAttrsAllFields(row, data) ==
    [row EXCEPT !.title = data.title, !.year = data.year,
                !.pages = data.pages, !.isbn = data.isbn]

\* setattr(instance, key, value) for the keys given.
SetAttrs(row, data) ==
    [row EXCEPT
        !.title = IF "title" \in ModelDump(data) THEN data.title ELSE @,
        !.year = IF "year" \in ModelDump(data) THEN data.year ELSE @,
        !.pages = IF "pages" \in ModelDump(data) THEN data.pages ELSE @,
        !.isbn = IF "isbn" \in ModelDump(data) THEN data.isbn ELSE @]

\* The columns the flush finds changed: those whose value on the instance
\* differs from the value the session loaded.
ChangedFields(loaded, data) ==
    {f \in ClientFields : SetAttrs(loaded, data)[f] # loaded[f]}

\* BaseRepository.update: get_by_id is session.get, which returns the
\* instance the session already holds (loaded by the get_by_id of the
\* service; nothing expires it, expire_on_commit=False) without a SELECT;
\* setattr for the keys given, then the commit: the flush emits an UPDATE of
\* the changed columns on the stored row, and the UPDATE sets updated_at
\* (onupdate=func.now()).  With no changed column no UPDATE is emitted.
ApplyUpdate(row, loaded, data) ==
    LET instance == SetAttrs(loaded, data)
        changed == ChangedFields(loaded, data)
    IN IF changed = {} THEN row
       ELSE [row EXCEPT
                !.title = IF "title" \in changed THEN instance.title ELSE @,
                !.year = IF "year" \in changed THEN instance.year ELSE @,
                !.pages = IF "pages" \in changed THEN instance.pages ELSE @,
                !.isbn = IF "isbn" \in changed THEN instance.isbn ELSE @,
                !.updated_at = @ + 1]

\* GET /books/{id}: get_book: get_by_id, BookNotFoundException when None,
\* else the mapped row.
GetBook(t) ==
    /\ req[t].pc = "idle"
    /\ \E id \in BookIds :
          LET frame == [IdleRequest EXCEPT !.op = "get", !.target = id,
                                           !.trace = <<"get_by_id">>]
          IN req' = [req EXCEPT ![t] =
                        IF GetById(id) = {}
                        THEN [frame EXCEPT !.pc = "failed", !.found = "no",
                                           !.error = "BookNotFoundException"]
                        ELSE [frame EXCEPT !.pc = "done", !.found = "yes",
                                           !.result = GetById(id),
                                           !.trace = Append(@, "map")]]
    /\ UNCHANGED <<books, nextId>>
    /\ UNCHANGED nonBookVars

\* The client fields of the rows as a session read them.
Loaded(rows) ==
    {[title |-> b.title, year |-> b.year, pages |-> b.pages,
      isbn |-> b.isbn] : b \in rows}

\* PATCH /books/{id}: the BookUpdate schema, then update_book up to its
\* first write: get_by_id, the year and pages rules, model_dump, and the
\* return of the stored row when no field was set.  `loaded` is the row as
\* get_by_id read it into the session, kept until the write.
UpdateBook(t, inputs) ==
    /\ req[t].pc = "idle"
    /\ \E id \in BookIds, data \in inputs :
          LET frame == [IdleRequest EXCEPT !.op = "update", !.target = id,
                                           !.data = data]
              read == [frame EXCEPT !.trace = <<"get_by_id">>]
              verdict == ValidateUpdate(data)
          IN req' = [req EXCEPT ![t] =
                   IF ~SchemaAcceptsUpdate(data)
                   THEN [frame EXCEPT !.pc = "failed",
                                      !.error = "RequestValidationError"]
                   ELSE IF GetById(id) = {}
                   THEN [read EXCEPT !.pc = "failed", !.found = "no",
                                     !.error = "BookNotFoundException"]
                   ELSE IF verdict # "ok"
                   THEN [read EXCEPT !.pc = "failed", !.found = "yes",
                                     !.error = verdict,
                                     !.trace = Append(@, "validate")]
                   ELSE IF IsEmptyUpdate(data)
                   THEN [read EXCEPT !.pc = "done", !.found = "yes",
                                     !.result = GetById(id),
                                     !.trace = @ \o <<"validate", "map">>]
                   ELSE [read EXCEPT !.pc = "update", !.found = "yes",
                                     !.loaded = Loaded(GetById(id)),
                                     !.trace = Append(@, "validate")]]
    /\ UNCHANGED <<books, nextId>>
    /\ UNCHANGED nonBookVars

\* The update requests of CatalogSpec.
UpdateBookCall(t) == UpdateBook(t, RawUpdateInputs)

\* updated = await self.book_repo.update(book_id, **update_data): get_by_id,
\* setattr, the commit and the refresh of BaseRepository.update.  When the
\* row was deleted since the service read it, the UPDATE matches no row and
\* the flush raises StaleDataError; with no UPDATE to emit the commit passes
\* and the refresh of the instance raises InvalidRequestError.
RepoUpdateBook(t) ==
    /\ req[t].pc = "update"
    /\ LET tried == [req[t] EXCEPT !.trace = Append(@, "update"),
                                   !.loaded = {}]
           loaded == CHOOSE b \in req[t].loaded : TRUE
       IN \/ /\ GetById(req[t].target) = {}
             /\ req' = [req EXCEPT ![t] =
                           IF ChangedFields(loaded, req[t].data) # {}
                           THEN [tried EXCEPT
                                    !.pc = "failed",
                                    !.error = "StaleDataError"]
                           ELSE [tried EXCEPT
                                    !.pc = "failed",
                                    !.error = "InvalidRequestError",
                                    !.commits = @ + 1]]
             /\ UNCHANGED books
          \/ \E old \in GetById(req[t].target) :
                LET new == ApplyUpdate(old, loaded, req[t].data)
                IN \/ /\ UniqueViolation(books, new.id, new.isbn)
                      /\ req' = [req EXCEPT ![t] = [tried EXCEPT
                                    !.pc = "failed", !.error = "IntegrityError"]]
                      /\ UNCHANGED books
                   \/ /\ ~UniqueViolation(books, new.id, new.isbn)
                      /\ books' = (books \ {old}) \cup {new}
                      /\ req' = [req EXCEPT ![t] = [tried EXCEPT
                                    !.pc = "refresh", !.commits = @ + 1,
                                    !.writes = @ + 1]]
                   \/ /\ req' = [req EXCEPT ![t] = [tried EXCEPT
                                    !.pc = "failed", !.error = "OperationalError"]]
                      /\ UNCHANGED books
    /\ UNCHANGED nextId
    /\ UNCHANGED nonBookVars

\* DELETE /books/{id}: delete_book up to its own commit:
\* BaseRepository.delete (get_by_id, False when None; session.delete and the
\* commit), BookNotFoundException when it returned False.
DeleteBookCall(t) ==
    /\ req[t].pc = "idle"
    /\ \E id \in BookIds :
          LET frame == [IdleRequest EXCEPT !.op = "delete", !.target = id,
                                           !.trace = <<"delete">>]
          IN \/ /\ GetById(id) = {}
                /\ req' = [req EXCEPT ![t] = [frame EXCEPT
                              !.pc = "failed", !.found = "no",
                              !.error = "BookNotFoundException"]]
                /\ UNCHANGED books
             \/ /\ GetById(id) # {}
                /\ books' = books \ GetById(id)
                /\ req' = [req EXCEPT ![t] = [frame EXCEPT
                              !.pc = "commit", !.found = "yes",
                              !.commits = @ + 1, !.writes = @ + 1]]
             \/ /\ GetById(id) # {}
                /\ req' = [req EXCEPT ![t] = [frame EXCEPT
                              !.pc = "failed", !.found = "yes",
                              !.error = "OperationalError"]]
                /\ UNCHANGED books
    /\ UNCHANGED nextId
    /\ UNCHANGED nonBookVars

\* The request has returned or raised.
RequestReturn(t) ==
    /\ req[t].pc \in {"done", "failed"}
    /\ req' = [req EXCEPT ![t] = IdleRequest]
    /\ UNCHANGED <<books, nextId>>
    /\ UNCHANGED nonBookVars

BookNext ==
    \/ \E t \in Tasks : CreateBookCall(t)
    \/ \E t \in Tasks : CheckUnique(t)
    \/ \E t \in Tasks : EnrichBookData(t)
    \/ \E t \in Tasks : RepoCreateBook(t)
    \/ \E t \in Tasks : RepoRefreshBook(t)
    \/ \E t \in Tasks : ServiceCommit(t)
    \/ \E t \in Tasks : RequestReturn(t)

BookSpec == BookInit /\ [][BookNext]_vars

\* The catalog under requests of every kind: the catalog task sends creates
\* and gets, the update task sends updates, both send deletes, so that a
\* row can appear, change or disappear under a request in flight (racing
\* creates are BookSpec's, racing updates RaceSpec's).
CatalogNext ==
    \/ \E t \in CatalogTasks : CatalogCreateCall(t)
    \/ \E t \in CatalogTasks : CheckUnique(t)
    \/ \E t \in CatalogTasks : EnrichBookData(t)
    \/ \E t \in CatalogTasks : RepoCreateBook(t)
    \/ \E t \in Tasks : RepoRefreshBook(t)
    \/ \E t \in CatalogTasks : GetBook(t)
    \/ \E t \in UpdateTasks : UpdateBookCall(t)
    \/ \E t \in UpdateTasks : RepoUpdateBook(t)
    \/ \E t \in Tasks : DeleteBookCall(t)
    \/ \E t \in Tasks : ServiceCommit(t)
    \/ \E t \in Tasks : RequestReturn(t)

CatalogSpec == BookInit /\ [][CatalogNext]_vars

(***************************************************************************)
(* Claims about create_book.                                               *)
(***************************************************************************)
TypedEnrichFailure(t) ==
    req[t].enrich \in {"OpenLibraryException", "OpenLibraryTimeoutException"}

\* C1 as stated: a create_book whose isbn equals, after normalization, the
\* isbn of an entry already created fails with BookAlreadyExistsException (and
\* so stores nothing).
ClaimC1_NormalizedDuplicateConflicts ==
    \A t \in Tasks :
        req[t].pc \notin {"idle", "find_by_isbn"} /\ req[t].dupAtCheck =>
            req[t].pc = "failed" /\ req[t].error = "BookAlreadyExistsException"

\* C4: a create_book whose enrichment call raised a typed enrichment
\* exception does not fail by it: it goes on to persist with a null extra, and
\* once it has returned it has written exactly one entry, which as long as it
\* is stored is the only one of its id and has extra null.
TheoremC4_EnrichFailureStillCreates ==
    \A t \in Tasks :
        TypedEnrichFailure(t) =>
            /\ req[t].extra = "None"
            /\ req[t].pc \in {"create", "refresh", "commit", "done", "failed"}
            /\ req[t].pc = "failed" => req[t].error \in PersistenceErrors
            /\ req[t].pc = "done" =>
                  /\ req[t].writes = 1
                  /\ Cardinality({b \in books : b.id = req[t].id}) <= 1
                  /\ \A b \in books : b.id = req[t].id => b.extra = "None"

\* C4 witness: a create_book has returned successfully after its enrichment
\* call timed out, and its entry is stored with a null extra.
WitnessC4_CreatedAfterTimeout ==
    \E t \in Tasks :
        /\ req[t].pc = "done"
        /\ req[t].enrich = "OpenLibraryTimeoutException"
        /\ \E b \in books : b.id = req[t].id /\ b.extra = "None"

(***************************************************************************)
(* Claims about the catalog: create, get, update and delete.               *)
(***************************************************************************)
\* C13: after any sequence of creates, updates and deletes, the stored
\* entries have distinct ids and no two of them hold the same non-null isbn.
TheoremC13_IsbnUnique ==
    \A b1 \in books, b2 \in books :
        b1 # b2 =>
            /\ b1.id # b2.id
            /\ b1.isbn # NoIsbn => b1.isbn # b2.isbn

\* C13 witness: an update that set the isbn another stored entry holds has
\* been refused by the unique index.
WitnessC13_DuplicateByUpdateRefused ==
    \E t \in Tasks :
        /\ req[t].op = "update" /\ req[t].pc = "failed"
        /\ req[t].error = "IntegrityError"
        /\ "isbn" \in req[t].data.fields
        /\ \E b \in books : b.id # req[t].target /\ b.isbn = req[t].data.isbn

\* A create request whose year is outside [1000, current year] or whose
\* page count is not positive.
InvalidCreate(t) ==
    /\ req[t].op = "create"
    /\ \/ req[t].year < 1000
       \/ req[t].year > CurrentYear
       \/ req[t].pages <= 0

\* An update request that supplies such a year or page count.
InvalidUpdate(t) ==
    /\ req[t].op = "update"
    /\ \/ "year" \in req[t].data.fields
             /\ (req[t].data.year < 1000 \/ req[t].data.year > CurrentYear)
       \/ "pages" \in req[t].data.fields /\ req[t].data.pages <= 0

\* The request has written nothing, committed nothing, and has called
\* neither the enrichment client nor a repository write.
NothingDone(t) ==
    /\ req[t].writes = 0
    /\ req[t].commits = 0
    /\ \A i \in 1..Len(req[t].trace) :
          req[t].trace[i] \notin {"enrich", "create", "update"}

\* C14 as stated: a create or an update with an invalid year or page count
\* fails with a validation error, having written nothing and having called
\* neither the enrichment client nor a repository write.
ClaimC14_InvalidInputRejected ==
    \A t \in Tasks :
        InvalidCreate(t) \/ InvalidUpdate(t) =>
            /\ req[t].pc = "failed"
            /\ req[t].error \in ValidationErrors
            /\ NothingDone(t)

\* C14, amended: the same for a create and for an update of a stored entry;
\* an update whose id matches no stored entry fails as not found when the
\* schema has let its body through, and it too has done nothing.
TheoremC14_InvalidInputRejected ==
    \A t \in Tasks :
        InvalidCreate(t) \/ InvalidUpdate(t) =>
            /\ req[t].pc = "failed"
            /\ NothingDone(t)
            /\ IF req[t].found = "no"
               THEN req[t].error = "BookNotFoundException"
               ELSE req[t].error \in ValidationErrors

\* C14 witness: an update of a stored entry with a year after the current
\* one has been rejected by the service.
WitnessC14_UpdateYearRejected ==
    \E t \in Tasks :
        /\ InvalidUpdate(t) /\ req[t].found = "yes"
        /\ req[t].pc = "failed" /\ req[t].error = "InvalidYearException"
        /\ \E b \in books : b.id = req[t].target /\ b.year = 2008

IsPrefix(s, t) == Len(s) <= Len(t) /\ SubSeq(t, 1, Len(s)) = s

\* The steps of create_book in the order of the code; the uniqueness check
\* is made when the request carries an isbn.
CreateSteps(isbn) ==
    <<"validate">>
        \o (IF isbn # NoIsbn THEN <<"find_by_isbn">> ELSE <<>>)
        \o <<"enrich", "create", "refresh", "commit", "map">>

\* C15: a create_book takes its steps in the order validate, uniqueness
\* check, enrichment, persist (insert and refresh), commit, map: what it has
\* done so far is always a prefix of that sequence, and all of it once it
\* has succeeded.
TheoremC15_CreateStepOrder ==
    \A t \in Tasks :
        req[t].op = "create" =>
            /\ IsPrefix(req[t].trace, CreateSteps(req[t].isbn))
            /\ req[t].pc = "done" => req[t].trace = CreateSteps(req[t].isbn)

\* C15 witness: a create with an isbn has succeeded after its enrichment
\* call failed.
WitnessC15_AllStepsAfterFailedEnrich ==
    \E t \in Tasks :
        /\ req[t].op = "create" /\ req[t].pc = "done"
        /\ req[t].isbn # NoIsbn
        /\ req[t].enrich = "OpenLibraryException"
        /\ Len(req[t].trace) = 7

\* C16 as stated: a create_book that has ended with a persistence error has
\* left no entry of its own in the store.
ClaimC16_FailedCreateLeavesNothing ==
    \A t \in Tasks :
        /\ req[t].op = "create" /\ req[t].pc = "failed"
        /\ req[t].error \in PersistenceErrors
        => ~\E b \in books : b.id = req[t].id

\* C17: a get, update or delete whose id matched no stored entry has failed
\* with BookNotFoundException (status 404), has written and committed
\* nothing, and returns nothing.
TheoremC17_UnknownIdNotFound ==
    \A t \in Tasks :
        req[t].op \in {"get", "update", "delete"} /\ req[t].found = "no" =>
            /\ req[t].pc = "failed"
            /\ req[t].error = "BookNotFoundException"
            /\ StatusCode(req[t].error) = 404
            /\ req[t].writes = 0 /\ req[t].commits = 0
            /\ req[t].result = {}

\* C17 witness: a delete of an id that matches none of the stored entries
\* has failed as not found.
WitnessC17_DeleteUnknownId ==
    \E t \in Tasks :
        /\ req[t].op = "delete" /\ req[t].found = "no"
        /\ req[t].pc = "failed"
        /\ books # {} /\ \A b \in books : b.id # req[t].target

\* C18 as stated: a successful update with a non-empty field set and a
\* successful delete have committed exactly once.
ClaimC18_SingleCommit ==
    \A t \in Tasks :
        /\ req[t].pc = "done"
        /\ \/ req[t].op = "delete"
           \/ req[t].op = "update" /\ req[t].data.fields # {}
        => req[t].commits = 1

\* The step in which an update request writes.
UpdateWrites(t) == req[t].pc = "update" /\ req'[t].pc = "refresh"

TheoremC20_EmptyUpdateIsNoOp ==
    [][\A t \in Tasks :
          /\ req[t].pc = "idle" /\ req'[t].op = "update"
          /\ req'[t].data.fields = {} /\ req'[t].found = "yes"
          => /\ req'[t].pc = "done"
             /\ req'[t].result = GetById(req'[t].target)
             /\ req'[t].result # {}
             /\ books' = books
             /\ req'[t].commits = 0 /\ req'[t].writes = 0
             /\ \A i \in 1..Len(req'[t].trace) :
                   req'[t].trace[i] \notin {"update", "commit"}]_vars

\* C20 witness: an update with no field set has returned an entry that an
\* earlier update had changed, and the entry is stored as returned.
WitnessC20_EmptyUpdateReturnedStored ==
    \E t \in Tasks :
        /\ req[t].op = "update" /\ req[t].pc = "done"
        /\ req[t].data.fields = {}
        /\ \E b \in req[t].result : b \in books /\ b.updated_at > 0

(***************************************************************************)
(* Racing update_book requests on one stored book.                         *)
(***************************************************************************)
\* The book both requests name, stored before they begin.
StoredBook ==
    [id |-> 1, title |-> "A", year |-> 2008, pages |-> 464, isbn |-> NoIsbn,
     extra |-> "None", created_at |-> 0, updated_at |-> 0]

\* The PATCH bodies of the racing requests: either title, or an isbn.
RaceUpdateInputs ==
    {[NoUpdate EXCEPT !.fields = {"title"}, !.title = "A"],
     [NoUpdate EXCEPT !.fields = {"title"}, !.title = "B"],
     [NoUpdate EXCEPT !.fields = {"isbn"}, !.isbn = Isbn13Plain]}

RaceInit ==
    /\ books = {StoredBook}
    /\ nextId = 2
    /\ req = [t \in Tasks |-> IdleRequest]
    /\ CacheIdle
    /\ UowIdle
    /\ ClientIdle
    /\ FilterIdle
    /\ ManagerIdle
    /\ AuthIdle

\* An update request, while the book has been written fewer than MaxUpdates
\* times.
RaceUpdateCall(t) ==
    /\ \A b \in books : b.updated_at < MaxUpdates
    /\ UpdateBook(t, RaceUpdateInputs)

RaceNext ==
    \/ \E t \in Tasks : RaceUpdateCall(t)
    \/ \E t \in Tasks : RepoUpdateBook(t)
    \/ \E t \in Tasks : RepoRefreshBook(t)
    \/ \E t \in Tasks : ServiceCommit(t)
    \/ \E t \in Tasks : RequestReturn(t)

RaceSpec == RaceInit /\ [][RaceNext]_vars

\* C29: of two interleaved updates of one entry neither is refused because
\* the entry changed after it was read, and when one commits each field it
\* set holds the value it gave, so that a field holds the value of the
\* request that committed last among those that set it.
ClaimC29_LastWriteWins ==
    [][\A t \in Tasks :
          req[t].pc = "update" /\ req'[t].pc # "update" =>
             \/ /\ req'[t].pc = "failed"
                /\ req'[t].error \in PersistenceErrors
             \/ /\ UpdateWrites(t)
                /\ \A b \in books' :
                      b.id = req[t].target =>
                          \A f \in req[t].data.fields :
                              b[f] = req[t].data[f]]_vars

(***************************************************************************)
(* The enrichment client: BaseApiClient._request, OpenLibraryClient and    *)
(* CachedOpenLibraryClient (external/base, external/openlibrary).          *)
(***************************************************************************)
\* The arguments of the calls: one title and author, an ISBN in two
\* spellings or none.
OlTitle == "T"
OlAuthor == "A"
OlIsbns == {NoIsbn, Isbn13Dashed, Isbn13Plain}
\* The operations called on the cached client; search_by_title_author runs
\* as the second lookup of enrich.
OlOps == {"search_by_isbn", "enrich"}

\* What one `self.client.request` + raise_for_status + response.json() can
\* come to: a body with a document that has the extracted fields, one with
\* a document that has none of them, one with no document, a request
\* timeout, a 5xx or 4xx status, a body that is not JSON, a refused
\* connection.
HttpOutcomes ==
    {"docs", "bare_doc", "no_docs", "timeout", "5xx", "4xx", "malformed",
     "connect_error"}

HttpAnswers == {"docs", "bare_doc", "no_docs"}

RECURSIVE Pow2(_)
Pow2(n) == IF n = 0 THEN 1 ELSE 2 * Pow2(n - 1)

\* A delay that grows by one backoff per attempt.
WaitTimeLinear(attempt) == Backoff * (attempt + 1)

\* wait_time = self.backoff * (2 ** attempt)
WaitTime(attempt) == Backoff * Pow2(attempt)

\* A loop that also sleeps and goes on after a 4xx status.
RetriedAnyStatus(outcome, attempt) ==
    outcome \in {"timeout", "5xx", "4xx"} /\ attempt < ol.retries - 1

\* _request sleeps and goes to the next attempt: after a TimeoutException
\* unless `attempt == self.retries - 1`, after an HTTPStatusError when
\* `status_code >= 500 and attempt < self.retries - 1`.
Retried(outcome, attempt) ==
    outcome \in {"timeout", "5xx"} /\ attempt < ol.retries - 1

\* A body that is not JSON taken for an empty answer.
HttpxExceptionBodyIgnored(outcome) ==
    CASE outcome = "timeout" -> "TimeoutException"
      [] outcome \in {"5xx", "4xx"} -> "HTTPStatusError"
      [] outcome = "connect_error" -> "ConnectError"
      [] OTHER -> "none"

\* The exception an attempt that is not retried leaves _request with.
HttpxException(outcome) ==
    CASE outcome = "timeout" -> "TimeoutException"
      [] outcome \in {"5xx", "4xx"} -> "HTTPStatusError"
      [] outcome = "connect_error" -> "ConnectError"
      [] outcome = "malformed" -> "JSONDecodeError"
      [] OTHER -> "none"

\* The handlers in the other order: httpx.HTTPError first takes the timeout
\* too.
TypedExceptionServiceFirst(exc) ==
    CASE exc \in {"TimeoutException", "HTTPStatusError", "ConnectError"} ->
            "OpenLibraryException"
      [] OTHER -> exc

\* search_by_isbn / search_by_title_author: `except httpx.TimeoutException`
\* then `except httpx.HTTPError`; anything else goes through as it is.
TypedException(exc) ==
    CASE exc = "TimeoutException" -> "OpenLibraryTimeoutException"
      [] exc \in {"HTTPStatusError", "ConnectError"} -> "OpenLibraryException"
      [] OTHER -> exc

OlTyped == {"OpenLibraryException", "OpenLibraryTimeoutException"}

\* `docs = data.get("docs", [])`, `if not docs: return {}`, else
\* _extract_book_data(docs[0]), which copies only the fields that are there.
SearchData(answer) == IF answer = "docs" THEN "payload" ELSE "empty"

\* The dict a lookup result stands for.
DictOf(found) == IF found = "payload" THEN Payload ELSE EmptyDict

\* CacheService.make_key: the md5 digest of json.dumps of the arguments.
\* Digests of different argument lists differ, so the digest is kept as the
\* argument list it was made of.
MakeKey(args) == [md5 |-> args]

\* The cache key of each operation of CachedOpenLibraryClient.
OlCacheKey(op, isbn) ==
    CASE op = "search_by_isbn" -> <<"ol:isbn", CleanIsbn(isbn)>>
      [] op = "search_by_title_author" ->
            <<"ol:title_author", MakeKey(<<OlTitle, OlAuthor>>)>>
      [] OTHER -> <<"ol:enrich", MakeKey(<<OlTitle, OlAuthor, isbn>>)>>

\* The first lookup of the wrapped operation: `if isbn:` in enrich.
FirstLookup(op, isbn) ==
    IF op = "search_by_isbn" \/ (op = "enrich" /\ isbn # NoIsbn)
    THEN "isbn" ELSE "ta"

OlEntries(key) == {e \in olStore : e.key = key}

\* backend.get(key): the stored value, None without a live entry.
OlCached(key) ==
    IF OlEntries(key) = {} THEN NoneV
    ELSE (CHOOSE e \in OlEntries(key) : TRUE).value

\* Two ISBN arguments that differ by separator characters at most.
SameIsbn(a, b) == CleanIsbn(a) = CleanIsbn(b)

ClientInit ==
    /\ ClientIdle
    /\ CacheIdle
    /\ UowIdle
    /\ BookIdle
    /\ FilterIdle
    /\ ManagerIdle
    /\ AuthIdle

\* A call of search_by_isbn or enrich on the cached client: the key is made,
\* get_or_set begins.
OlCall(op, isbn) ==
    /\ ol.pc = "idle"
    /\ op = "search_by_isbn" => isbn # NoIsbn
    /\ ol' = [IdleCall EXCEPT !.pc = "get", !.op = op, !.isbn = isbn,
                              !.key = OlCacheKey(op, isbn)]
    /\ UNCHANGED olStore
    /\ UNCHANGED nonClientVars

\* get_or_set: `cached = await self.backend.get(key)`; a hit returns it, a
\* miss enters the factory, which starts its first lookup.  `answered` tells
\* whether the service answered some attempt of the computation the value of
\* the call comes from; `equivLive` whether an entry of the same operation
\* and an ISBN equal up to separators is live.
OlCacheGet ==
    /\ ol.pc = "get"
    /\ LET cached == OlCached(ol.key)
           equiv == \E e \in olStore :
                        e.op = ol.op /\ SameIsbn(e.isbn, ol.isbn)
       IN IF IsHit(cached)
          THEN ol' = [ol EXCEPT !.pc = "done", !.hit = TRUE,
                                !.equivLive = equiv, !.value = cached,
                                !.answered =
                                    \A e \in OlEntries(ol.key) : e.answered]
          ELSE ol' = [ol EXCEPT !.pc = "request", !.equivLive = equiv,
                                !.lookup = FirstLookup(ol.op, ol.isbn),
                                !.lookups = <<FirstLookup(ol.op, ol.isbn)>>]
    /\ UNCHANGED olStore
    /\ UNCHANGED nonClientVars

\* One pass of `for attempt in range(self.retries)` in _request.
RequestAttempt(outcome) ==
    /\ ol.pc = "request"
    /\ ol.attempt < ol.retries
    /\ LET tried == [ol EXCEPT !.outcomes = Append(@, outcome)]
       IN IF outcome \in HttpAnswers
          THEN ol' = [tried EXCEPT !.pc = "responded", !.answered = TRUE]
          ELSE IF Retried(outcome, ol.attempt)
          THEN ol' = [tried EXCEPT
                         !.sleeps = Append(@, WaitTime(ol.attempt)),
                         !.attempt = @ + 1]
          ELSE ol' = [tried EXCEPT !.pc = "responded",
                                   !.exc = HttpxException(outcome)]
    /\ UNCHANGED olStore
    /\ UNCHANGED nonClientVars

\* search_by_isbn / search_by_title_author after self._get: the data of the
\* answer or the typed exception.  A direct call ends here.
SearchReturn ==
    /\ ol.pc = "responded"
    /\ LET found == IF ol.exc = "none"
                    THEN SearchData(ol.outcomes[Len(ol.outcomes)])
                    ELSE TypedException(ol.exc)
       IN IF ol.op = "enrich"
          THEN ol' = [ol EXCEPT !.pc = "searched", !.found = found]
          ELSE IF ol.exc = "none"
          THEN ol' = [ol EXCEPT !.pc = "set", !.found = found,
                                !.value = DictOf(found)]
          ELSE ol' = [ol EXCEPT !.pc = "raised", !.found = found,
                                !.error = found]
    /\ UNCHANGED olStore
    /\ UNCHANGED nonClientVars

\* enrich after search_by_isbn: `if data: return data`; a typed exception is
\* logged; then the title+author lookup.  Any other exception leaves enrich.
EnrichAfterIsbn ==
    /\ ol.pc = "searched"
    /\ ol.lookup = "isbn"
    /\ IF ol.found = "payload"
       THEN ol' = [ol EXCEPT !.pc = "set", !.isbnFound = ol.found,
                             !.value = DictOf(ol.found)]
       ELSE IF ol.found \in {"empty"} \cup OlTyped
       THEN ol' = [ol EXCEPT !.pc = "request", !.isbnFound = ol.found,
                             !.lookup = "ta",
                             !.lookups = Append(@, "ta"),
                             !.attempt = 0, !.outcomes = <<>>,
                             !.sleeps = <<>>, !.exc = "none",
                             !.found = "none"]
       ELSE ol' = [ol EXCEPT !.pc = "raised", !.isbnFound = ol.found,
                             !.error = ol.found]
    /\ UNCHANGED olStore
    /\ UNCHANGED nonClientVars

\* enrich after search_by_title_author: `return data`; a typed exception is
\* logged and `return {}`.
EnrichAfterTitleAuthor ==
    /\ ol.pc = "searched"
    /\ ol.lookup = "ta"
    /\ IF ol.found \in {"payload", "empty"}
       THEN ol' = [ol EXCEPT !.pc = "set", !.value = DictOf(ol.found)]
       ELSE IF ol.found \in OlTyped
       THEN ol' = [ol EXCEPT !.pc = "set", !.value = EmptyDict]
       ELSE ol' = [ol EXCEPT !.pc = "raised", !.error = ol.found]
    /\ UNCHANGED olStore
    /\ UNCHANGED nonClientVars

\* get_or_set after the factory: `if value is not None: backend.set(...)`,
\* `return value`.  The entry remembers the call that made it.
OlCacheSet ==
    /\ ol.pc = "set"
    /\ olStore' =
           IF ShouldStore(ol.value)
           THEN (olStore \ OlEntries(ol.key)) \cup
                    {[key |-> ol.key, value |-> ol.value, op |-> ol.op,
                      isbn |-> ol.isbn, answered |-> ol.answered]}
           ELSE olStore
    /\ ol' = [ol EXCEPT !.pc = "done"]
    /\ UNCHANGED nonClientVars

\* The call is over: its result or exception reached the caller.
OlReturn ==
    /\ ol.pc \in {"done", "raised"}
    /\ ol' = IdleCall
    /\ UNCHANGED olStore
    /\ UNCHANGED nonClientVars

\* An entry leaves the cache: its ttl ran out or it was invalidated.
OlExpire ==
    /\ \E e \in olStore : olStore' = olStore \ {e}
    /\ UNCHANGED ol
    /\ UNCHANGED nonClientVars

ClientNext ==
    \/ \E op \in OlOps, isbn \in OlIsbns : OlCall(op, isbn)
    \/ OlCacheGet
    \/ \E outcome \in HttpOutcomes : RequestAttempt(outcome)
    \/ SearchReturn
    \/ EnrichAfterIsbn
    \/ EnrichAfterTitleAuthor
    \/ OlCacheSet
    \/ OlReturn
    \/ OlExpire

ClientSpec == ClientInit /\ [][ClientNext]_vars

(***************************************************************************)
(* Claims about the enrichment client.                                     *)
(***************************************************************************)
\* An enrich call whose factory ran to its end (no cache hit).
EnrichRan ==
    /\ ol.op = "enrich"
    /\ ol.pc \in {"set", "done", "raised"}
    /\ ~ol.hit

\* C21: in OpenLibraryClient.enrich, with an ISBN supplied the lookup by
\* ISBN comes first and a non-empty result of it is returned without a
\* title+author lookup; with no ISBN, or when the ISBN lookup returned
\* nothing or failed, the title+author lookup runs exactly once afterwards.
ClaimC21_LookupOrder ==
    EnrichRan =>
        /\ ol.isbn = NoIsbn => ol.lookups = <<"ta">>
        /\ ol.isbn # NoIsbn /\ ol.isbnFound = "payload" =>
               ol.lookups = <<"isbn">>
        /\ ol.isbn # NoIsbn /\ ol.isbnFound # "payload" =>
               ol.lookups = <<"isbn", "ta">>

\* The attempts of the lookup the call made last, the last one apart.
EarlierAttempts ==
    IF ol.pc = "request" THEN 1..Len(ol.outcomes)
    ELSE 1..(Len(ol.outcomes) - 1)

\* C22: _request goes to another attempt only after a timeout or a 5xx
\* status, sleeping backoff * 2^attempt before it; a 4xx status or a
\* malformed body raises on the attempt where it occurs, with no sleep and no
\* further attempt.
TheoremC22_RetryOnlyTransient ==
    /\ Len(ol.outcomes) <= Retries
    /\ \A i \in EarlierAttempts : ol.outcomes[i] \in {"timeout", "5xx"}
    /\ Len(ol.sleeps) = Cardinality(EarlierAttempts)
    /\ \A i \in 1..Len(ol.sleeps) : ol.sleeps[i] = Backoff * Pow2(i - 1)
    /\ \A i \in 1..Len(ol.outcomes) :
           ol.outcomes[i] \in {"4xx", "malformed"} =>
               /\ i = Len(ol.outcomes)
               /\ ol.pc # "request"
               /\ ol.exc = HttpxException(ol.outcomes[i])
               /\ Len(ol.sleeps) = i - 1

\* One timeout was retried after 500 ms, then a malformed body ended the
\* request at the second attempt.
WitnessC22_MalformedAfterRetry ==
    /\ ol.outcomes = <<"timeout", "malformed">>
    /\ ol.sleeps = <<Backoff>>
    /\ ol.exc = "JSONDecodeError"
    /\ ol.pc = "responded"

\* C23: a lookup that ends in a request timeout raises
\* OpenLibraryTimeoutException, one that ends in an HTTP error raises
\* OpenLibraryException, and neither kind is reported as the other.
TheoremC23_TypedFailure ==
    ol.found # "none" =>
        LET last == ol.outcomes[Len(ol.outcomes)]
        IN /\ ol.found = "OpenLibraryTimeoutException" <=> last = "timeout"
           /\ ol.found = "OpenLibraryException" <=>
                  last \in {"5xx", "4xx", "connect_error"}
           /\ ol.op = "search_by_isbn" /\ ol.pc = "raised" =>
                  ol.error = ol.found

\* search_by_isbn raised the timeout kind after three timeouts.
WitnessC23_TimeoutsExhausted ==
    /\ ol.op = "search_by_isbn"
    /\ ol.pc = "raised"
    /\ ol.outcomes = <<"timeout", "timeout", "timeout">>
    /\ ol.error = "OpenLibraryTimeoutException"

\* C24: enrich returns an empty payload only when the service answered
\* without a match, and raises a typed exception when its last lookup
\* failed after the retries.
ClaimC24_FailureDistinguished ==
    EnrichRan =>
        /\ ol.pc \in {"set", "done"} /\ ol.value = EmptyDict =>
               ol.found = "empty"
        /\ ol.found \in OlTyped =>
               ol.pc = "raised" /\ ol.error = ol.found

\* C25: search_by_isbn and enrich of the cached client give two calls whose
\* ISBNs differ by separator characters only the same cache key, so the
\* second call is a hit while the entry of the first is live.
ClaimC25_EquivalentIdsShareKey ==
    /\ ol.pc \notin {"idle", "get"} /\ ol.equivLive => ol.hit
    /\ \A e \in olStore :
           ol.pc # "idle" /\ e.op = ol.op /\ SameIsbn(e.isbn, ol.isbn) =>
               e.key = ol.key

\* C26: a cached enrich call during which the service failed on every
\* attempt leaves no cache entry under its key, and no call is answered from
\* an entry that such a computation made.
ClaimC26_NoEntryAfterFailure ==
    ol.op = "enrich" /\ ol.pc = "done" /\ ~ol.answered =>
        /\ ~ol.hit
        /\ OlEntries(ol.key) = {}

(***************************************************************************)
(* BookRepository.find_by_filters and count_by_filters                     *)
(* (data/repositories/book_repository.py).                                 *)
(***************************************************************************)
\* What a stored book can hold in the columns the filters read.
ShelfContents ==
    {[title |-> <<"G", "o">>, author |-> <<"K">>, genre |-> "Programming",
      year |-> 2008, available |-> "True"],
     [title |-> <<"G", "O">>, author |-> <<"K">>, genre |-> "Fiction",
      year |-> 2015, available |-> "False"],
     [title |-> <<"a", "b">>, author |-> <<"M">>, genre |-> "Programming",
      year |-> 2015, available |-> "True"]}

\* The filter arguments: None, the empty string, a title in the other case,
\* a title made of the LIKE wildcard; None, 0 and a year; None and both
\* truth values.
TitleFilters == {NoFilter, <<>>, <<"g", "O">>, <<"_">>}
AuthorFilters == {NoFilter, <<"k">>}
GenreFilters == {"None", "", "Programming"}
YearFilters == {NoYear, 0, 2008}
AvailableFilters == {"None", "True", "False"}

Filters ==
    [title : TitleFilters, author : AuthorFilters, genre : GenreFilters,
     year : YearFilters, available : AvailableFilters]

\* Lower case of the characters the model uses.
LowerChar(c) ==
    CASE c = "G" -> "g"
      [] c = "O" -> "o"
      [] c = "K" -> "k"
      [] c = "M" -> "m"
      [] OTHER -> c

LowerStr(str) == [i \in 1..Len(str) |-> LowerChar(str[i])]

\* SQL LIKE: % matches any run of characters, _ any one character.
RECURSIVE Like(_, _)
Like(text, pattern) ==
    IF pattern = <<>> THEN text = <<>>
    ELSE IF Head(pattern) = "%"
    THEN Like(text, Tail(pattern))
             \/ (text # <<>> /\ Like(Tail(text), pattern))
    ELSE /\ text # <<>>
         /\ Head(pattern) = "_" \/ Head(pattern) = Head(text)
         /\ Like(Tail(text), Tail(pattern))

\* column.ilike(pattern): LIKE without regard to case.
ILike(text, pattern) == Like(LowerStr(text), LowerStr(pattern))

\* f"%{title}%"
Contains(str) == <<"%">> \o str \o <<"%">>

\* The where clauses of find_by_filters: `if title:`, `if author:`,
\* `if genre:`, `if year:`, `if available is not None:`.
FindWhere(b, f) ==
    /\ f.title \notin {NoFilter, <<>>} => ILike(b.title, Contains(f.title))
    /\ f.author \notin {NoFilter, <<>>} => ILike(b.author, Contains(f.author))
    /\ f.genre \notin {"None", ""} => b.genre = f.genre
    /\ f.year \notin {NoYear, 0} => b.year = f.year
    /\ f.available # "None" => b.available = f.available

\* count_by_filters testing the year with `is not None`.
CountWhereYearNotNone(b, f) ==
    /\ f.title \notin {NoFilter, <<>>} => ILike(b.title, Contains(f.title))
    /\ f.author \notin {NoFilter, <<>>} => ILike(b.author, Contains(f.author))
    /\ f.genre \notin {"None", ""} => b.genre = f.genre
    /\ f.year # NoYear => b.year = f.year
    /\ f.available # "None" => b.available = f.available

\* The where clauses of count_by_filters.
CountWhere(b, f) ==
    /\ f.title \notin {NoFilter, <<>>} => ILike(b.title, Contains(f.title))
    /\ f.author \notin {NoFilter, <<>>} => ILike(b.author, Contains(f.author))
    /\ f.genre \notin {"None", ""} => b.genre = f.genre
    /\ f.year \notin {NoYear, 0} => b.year = f.year
    /\ f.available # "None" => b.available = f.available

\* order_by(Book.created_at.desc()) over a set of rows.
RECURSIVE OrderByCreatedDesc(_)
OrderByCreatedDesc(rows) ==
    IF rows = {} THEN <<>>
    ELSE LET newest == CHOOSE b \in rows :
                           \A c \in rows : c.created_at <= b.created_at
         IN <<newest>> \o OrderByCreatedDesc(rows \ {newest})

\* .limit(limit).offset(offset)
LimitOffset(rows, limit, offset) ==
    SubSeq(rows, offset + 1,
           IF offset + limit < Len(rows) THEN offset + limit ELSE Len(rows))

\* find_by_filters(**f, limit, offset) over the rows.
FindByFiltersRows(rows, f, limit, offset) ==
    LimitOffset(OrderByCreatedDesc({b \in rows : FindWhere(b, f)}),
                limit, offset)

\* count_by_filters(**f) over the rows.
CountByFiltersRows(rows, f) == Cardinality({b \in rows : CountWhere(b, f)})

FilterInit ==
    /\ FilterIdle
    /\ CacheIdle
    /\ UowIdle
    /\ BookIdle
    /\ ClientIdle
    /\ ManagerIdle
    /\ AuthIdle

\* A book is stored: created_at follows the rows stored before it.
ShelfAdd(content) ==
    /\ query.op = "none"
    /\ Cardinality(shelf) < MaxBooks
    /\ shelf' = shelf \cup
           {[id |-> Cardinality(shelf) + 1, title |-> content.title,
             author |-> content.author, genre |-> content.genre,
             year |-> content.year, available |-> content.available,
             created_at |-> Cardinality(shelf) + 1]}
    /\ UNCHANGED query
    /\ UNCHANGED nonFilterVars

\* find_by_filters: the rows the statement selects.
FindByFilters(f, limit, offset) ==
    /\ query.op = "none"
    /\ query' = [op |-> "find", title |-> f.title, author |-> f.author,
                 genre |-> f.genre, year |-> f.year,
                 available |-> f.available, limit |-> limit,
                 offset |-> offset,
                 found |-> FindByFiltersRows(shelf, f, limit, offset),
                 total |-> 0]
    /\ UNCHANGED shelf
    /\ UNCHANGED nonFilterVars

\* count_by_filters: the count the statement returns.
CountByFilters(f) ==
    /\ query.op = "none"
    /\ query' = [op |-> "count", title |-> f.title, author |-> f.author,
                 genre |-> f.genre, year |-> f.year,
                 available |-> f.available, limit |-> 0, offset |-> 0,
                 found |-> <<>>,
                 total |-> CountByFiltersRows(shelf, f)]
    /\ UNCHANGED shelf
    /\ UNCHANGED nonFilterVars

\* The caller has the result.
FilterReturn ==
    /\ query.op # "none"
    /\ query' = NoQuery
    /\ UNCHANGED shelf
    /\ UNCHANGED nonFilterVars

FilterNext ==
    \/ \E content \in ShelfContents : ShelfAdd(content)
    \/ \E f \in Filters, limit \in 1..MaxBooks, offset \in 0..1 :
           FindByFilters(f, limit, offset)
    \/ \E f \in Filters : CountByFilters(f)
    \/ FilterReturn

FilterSpec == FilterInit /\ [][FilterNext]_vars

(***************************************************************************)
(* Claims about the filters.                                               *)
(***************************************************************************)
\* The filter arguments of the query in progress.
QueryFilters ==
    [title |-> query.title, author |-> query.author, genre |-> query.genre,
     year |-> query.year, available |-> query.available]

\* C27: count_by_filters returns the number of entries that find_by_filters
\* returns for the same filters with offset 0 and a limit that covers the
\* store.
TheoremC27_CountEqualsFind ==
    query.op = "count" =>
        query.total =
            Len(FindByFiltersRows(shelf, QueryFilters, Cardinality(shelf), 0))

\* A count with year = 0 over a store of two books, one of them counted out
\* by the genre.
WitnessC27_CountOverTwoBooks ==
    /\ query.op = "count"
    /\ query.year = 0
    /\ query.genre = "Programming"
    /\ Cardinality(shelf) = 2
    /\ query.total = 1

\* Text is in str, case apart.
RECURSIVE IsSubstring(_, _)
IsSubstring(text, str) ==
    \/ /\ Len(text) <= Len(str)
       /\ LowerStr(SubSeq(str, 1, Len(text))) = LowerStr(text)
    \/ str # <<>> /\ IsSubstring(text, Tail(str))

\* The entry satisfies every filter that is not None.
Satisfies(b, f) ==
    /\ f.title # NoFilter => IsSubstring(f.title, b.title)
    /\ f.author # NoFilter => IsSubstring(f.author, b.author)
    /\ f.genre # "None" => b.genre = f.genre
    /\ f.year # NoYear => b.year = f.year
    /\ f.available # "None" => b.available = f.available

\* C28: find_by_filters returns exactly the stored entries that satisfy every
\* filter that is not None (substring match without case for title and
\* author, equality for genre, year and available), newest first.
ClaimC28_FindAppliesEveryFilter ==
    query.op = "find" /\ query.offset = 0 /\ query.limit >= Cardinality(shelf)
        => /\ {query.found[i] : i \in 1..Len(query.found)} =
                  {b \in shelf : Satisfies(b, QueryFilters)}
           /\ \A i, j \in 1..Len(query.found) :
                  i < j =>
                      query.found[i].created_at > query.found[j].created_at

(***************************************************************************)
(* ClientsManager (core/clients.py) over BaseApiClient.client and close.   *)
(***************************************************************************)
\* A new OpenLibraryClient: no httpx.AsyncClient yet (self._client = None).
NewClient == [state |-> "none", opened |-> 0, acloses |-> 0]

\* close() that leaves self._client in place after aclose.
AfterAcloseKept(client) == [client EXCEPT !.acloses = @ + 1]

\* BaseApiClient.close after `await self._client.aclose()`:
\* `self._client = None`.
AfterAclose(client) == [client EXCEPT !.acloses = @ + 1, !.state = "none"]

\* `if self._client is not None` in BaseApiClient.close.
HasPool(id) == pools[id].state # "none"

\* get_openlibrary: `if self._openlibrary is None:` a client is constructed;
\* the manager and the clients after the call.
AfterGetOpenLibrary ==
    IF mgr.openlibrary = 0
    THEN [m |-> [mgr EXCEPT !.openlibrary = Len(pools) + 1],
          p |-> Append(pools, NewClient)]
    ELSE [m |-> mgr, p |-> pools]

ManagerInit ==
    /\ ManagerIdle
    /\ AuthIdle
    /\ CacheIdle
    /\ UowIdle
    /\ BookIdle
    /\ ClientIdle
    /\ FilterIdle

\* A dependency asks for the client: get_openlibrary.
GetOpenLibrary(t) ==
    /\ mgr.pc # "closed"
    /\ mgr' = AfterGetOpenLibrary.m
    /\ pools' = AfterGetOpenLibrary.p
    /\ held' = [held EXCEPT ![t].client = AfterGetOpenLibrary.m.openlibrary]
    /\ UNCHANGED nonManagerVars

\* A dependency asks for the cached client: get_cached_openlibrary, which
\* wraps the client get_openlibrary returns when it has none yet.
GetCachedOpenLibrary(t) ==
    /\ mgr.pc # "closed"
    /\ LET got == AfterGetOpenLibrary
           wrapper == [wid |-> mgr.wrappers + 1,
                       client |-> got.m.openlibrary]
       IN IF mgr.cached = NoWrapper
          THEN /\ mgr' = [got.m EXCEPT !.cached = wrapper,
                                       !.wrappers = @ + 1]
               /\ pools' = got.p
               /\ held' = [held EXCEPT ![t].cached = wrapper]
          ELSE /\ held' = [held EXCEPT ![t].cached = mgr.cached]
               /\ UNCHANGED <<mgr, pools>>
    /\ UNCHANGED nonManagerVars

\* A request begins on a handle the task holds: the `client` property makes
\* the httpx.AsyncClient when self._client is None.
UseClient(t) ==
    /\ ~held[t].using
    /\ \E id \in {held[t].client, held[t].cached.client} \ {0} :
          pools' = IF HasPool(id) THEN pools
                   ELSE [pools EXCEPT ![id].state = "open",
                                      ![id].opened = @ + 1]
    /\ held' = [held EXCEPT ![t].using = TRUE]
    /\ UNCHANGED mgr
    /\ UNCHANGED nonManagerVars

\* The request of the task is over.
UseDone(t) ==
    /\ held[t].using
    /\ held' = [held EXCEPT ![t].using = FALSE]
    /\ UNCHANGED <<mgr, pools>>
    /\ UNCHANGED nonManagerVars

\* close_all up to its first suspension: the aclose of the pool, through the
\* cached client when there is one, else through the client; with no pool
\* to close it runs to its end.
CloseAllBegin ==
    /\ mgr.pc = "running"
    /\ LET id == IF mgr.cached # NoWrapper THEN mgr.cached.client
                 ELSE mgr.openlibrary
       IN IF id # 0 /\ HasPool(id)
          THEN mgr' = [mgr EXCEPT !.openAtClose = TRUE,
                                  !.pc = IF mgr.cached # NoWrapper
                                         THEN "aclose_cached"
                                         ELSE "aclose_client"]
          ELSE mgr' = [mgr EXCEPT !.cached = NoWrapper, !.openlibrary = 0,
                                  !.pc = "closed"]
    /\ UNCHANGED <<pools, held>>
    /\ UNCHANGED nonManagerVars

\* aclose returned: close sets self._client, close_all drops the cached
\* client and closes the client itself, which suspends again only if it
\* still has a pool; then the manager drops the client.
AcloseDone ==
    /\ mgr.pc \in {"aclose_cached", "aclose_client"}
    /\ LET id == IF mgr.pc = "aclose_cached" THEN mgr.cached.client
                 ELSE mgr.openlibrary
           closed == AfterAclose(pools[id])
       IN /\ pools' = [pools EXCEPT ![id] = closed]
          /\ IF mgr.pc = "aclose_cached" /\ closed.state # "none"
             THEN mgr' = [mgr EXCEPT !.cached = NoWrapper,
                                     !.pc = "aclose_client"]
             ELSE mgr' = [mgr EXCEPT !.cached = NoWrapper,
                                     !.openlibrary = 0, !.pc = "closed"]
    /\ UNCHANGED held
    /\ UNCHANGED nonManagerVars

ManagerNext ==
    \/ \E t \in Tasks : GetOpenLibrary(t)
    \/ \E t \in Tasks : GetCachedOpenLibrary(t)
    \/ \E t \in Tasks : UseClient(t)
    \/ \E t \in Tasks : UseDone(t)
    \/ CloseAllBegin
    \/ AcloseDone

ManagerSpec == ManagerInit /\ [][ManagerNext]_vars

CreateWrites(t) == req[t].pc = "create" /\ req'[t].pc = "refresh"

\* The step in which a delete request removes the row.
DeleteWrites(t) ==
    req[t].pc = "idle" /\ req'[t].op = "delete" /\ req'[t].pc = "commit"

\* C31: a create stores, under the id it returns, a fresh row with the
\* title, year, pages and isbn of the request; a stored row changes only in
\* the write of an update or a delete that names its id; a get returns the
\* stored row of the id it names, and fails as not found when there is none;
\* a delete that succeeds leaves no row of its id, and an id once absent
\* stays absent.  So a get after a create returns what the create stored
\* until an update or a delete of that id, and fails as not found after a
\* delete.
TheoremC31_CreateGetRoundTrip ==
    [][/\ \A t \in Tasks :
             CreateWrites(t) =>
                \E b \in books' :
                   /\ b.id = req'[t].id
                   /\ \A c \in books : c.id # b.id
                   /\ b.title = "A" /\ b.year = req[t].year
                   /\ b.pages = req[t].pages /\ b.isbn = req[t].isbn
                   /\ books' = books \cup {b}
       /\ \A b \in books :
             b \notin books' =>
                \E t \in Tasks :
                    /\ UpdateWrites(t) \/ DeleteWrites(t)
                    /\ req'[t].target = b.id
       /\ \A t \in Tasks :
             req[t].pc = "idle" /\ req'[t].op = "get" =>
                IF \E b \in books : b.id = req'[t].target
                THEN /\ req'[t].pc = "done"
                     /\ req'[t].result = {b \in books : b.id = req'[t].target}
                ELSE /\ req'[t].pc = "failed"
                     /\ req'[t].error = "BookNotFoundException"
                     /\ StatusCode(req'[t].error) = 404
       /\ \A t \in Tasks :
             DeleteWrites(t) => \A b \in books' : b.id # req'[t].target
       /\ \A i \in 1..(nextId - 1) :
             (\A b \in books : b.id # i) => \A b \in books' : b.id # i]_vars

\* C31 witness: a get has returned the row a create stored with an isbn,
\* which no update has touched, after another created row was deleted.
WitnessC31_GetAfterCreate ==
    /\ req["t1"].op = "get" /\ req["t1"].pc = "done"
    /\ \E b \in req["t1"].result :
          /\ b \in books /\ b.id = req["t1"].target
          /\ b.isbn = Isbn13Plain /\ b.updated_at = 0
    /\ Cardinality(books) < nextId - 1

(***************************************************************************)
(* The exceptions of the domain and the handlers that answer them          *)
(* (core/exceptions.py, domain/exceptions.py).  An exception object is     *)
(* [cls, message, status_code, details]; a message is the tuple of the     *)
(* pieces of its f-string; a dict is the sequence of its key-value pairs   *)
(* in the order they were written, a later pair replacing an earlier one   *)
(* with the same key.                                                      *)
(***************************************************************************)
\* AppException.__init__: `self.details = details or {}`.
AppException(cls, message, status_code, details) ==
    [cls |-> cls, message |-> message, status_code |-> status_code,
     details |-> details]

\* NotFoundException.__init__(resource, identifier).
NotFoundException(cls, resource, identifier) ==
    AppException(cls, <<resource, " with id '", identifier, "' not found">>,
                 404,
                 <<<<"resource", resource>>, <<"identifier", identifier>>>>)

\* ConflictException.__init__(message, details).
ConflictException(cls, message, details) ==
    AppException(cls, message, 409, details)

BookNotFoundException(book_id) ==
    NotFoundException("BookNotFoundException", "Book", book_id)

\* The exception with a detail named like the discriminator.
BookAlreadyExistsTypeDetail(isbn) ==
    ConflictException("BookAlreadyExistsException",
                      <<"Book with ISBN '", isbn, "' already exists">>,
                      <<<<"type", "isbn">>, <<"isbn", isbn>>>>)

BookAlreadyExistsException(isbn) ==
    ConflictException("BookAlreadyExistsException",
                      <<"Book with ISBN '", isbn, "' already exists">>,
                      <<<<"isbn", isbn>>>>)

InvalidYearException(year) ==
    AppException("InvalidYearException",
                 <<"Year ", year, " is invalid (must be 1000-", CurrentYear,
                   ")">>,
                 400,
                 <<<<"year", year>>, <<"max_year", CurrentYear>>>>)

InvalidPagesException(pages) ==
    AppException("InvalidPagesException",
                 <<"Pages count must be positive, got ", pages>>,
                 400,
                 <<<<"pages", pages>>>>)

\* The classes derived from AppException that the book service raises.
DomainErrors ==
    {"BookNotFoundException", "BookAlreadyExistsException",
     "InvalidYearException", "InvalidPagesException"}

\* The exception object a failed request raised, with the arguments of its
\* raise statement.
RaisedBy(frame) ==
    CASE frame.error = "BookNotFoundException" ->
             BookNotFoundException(frame.target)
      [] frame.error = "BookAlreadyExistsException" ->
             BookAlreadyExistsException(frame.isbn)
      [] frame.error = "InvalidYearException" ->
             InvalidYearException(IF frame.op = "create" THEN frame.year
                                  ELSE frame.data.year)
      [] frame.error = "InvalidPagesException" ->
             InvalidPagesException(IF frame.op = "create" THEN frame.pages
                                   ELSE frame.data.pages)

\* d[key] of a dict written as a sequence of pairs: the last pair wins.
DictGet(pairs, key) ==
    LET at == {i \in 1..Len(pairs) : pairs[i][1] = key}
    IN pairs[CHOOSE i \in at : \A j \in at : j <= i][2]

DictKeys(pairs) == {pairs[i][1] : i \in 1..Len(pairs)}

\* app_exception_handler: JSONResponse(status_code=exc.status_code,
\* content={"detail": exc.message, "type": exc.__class__.__name__,
\* **exc.details}).
AppExceptionHandler(exc) ==
    [status_code |-> exc.status_code,
     content |-> <<<<"detail", exc.message>>, <<"type", exc.cls>>>>
                    \o exc.details]

\* general_exception_handler, for what is no AppException.
GeneralExceptionHandler ==
    [status_code |-> 500,
     content |-> <<<<"detail", "Internal server error">>,
                   <<"type", "InternalError">>>>]

\* The answer to a failed request of the book service; the rejection of a
\* body by the schema is answered by the framework (422).
Response(frame) ==
    IF frame.error \in DomainErrors THEN AppExceptionHandler(RaisedBy(frame))
    ELSE IF frame.error = "RequestValidationError"
    THEN [status_code |-> 422,
          content |-> <<<<"detail", "validation">>>>]
    ELSE GeneralExceptionHandler

\* The kind of a domain error.
ErrorKind(error) ==
    CASE error \in {"InvalidYearException", "InvalidPagesException"} ->
             "validation"
      [] error = "BookNotFoundException" -> "not_found"
      [] error = "BookAlreadyExistsException" -> "conflict"

KindStatus(kind) ==
    CASE kind = "validation" -> 400
      [] kind = "not_found" -> 404
      [] kind = "conflict" -> 409

\* C32: a request that failed with a domain error is answered with the
\* status of the error's kind (400 validation, 404 not found, 409 conflict)
\* and a body whose "type" is the name of the error's class and whose
\* "detail" is its message: no key of the error's details is "type" or
\* "detail".
TheoremC32_ErrorResponse ==
    \A t \in Tasks :
        req[t].pc = "failed" /\ req[t].error \in DomainErrors =>
            LET exc == RaisedBy(req[t])
                resp == Response(req[t])
            IN /\ resp.status_code = KindStatus(ErrorKind(req[t].error))
               /\ resp.status_code = StatusCode(req[t].error)
               /\ DictGet(resp.content, "type") = req[t].error
               /\ DictGet(resp.content, "detail") = exc.message
               /\ DictKeys(exc.details) \cap {"type", "detail"} = {}
               /\ \A k \in DictKeys(exc.details) :
                     DictGet(resp.content, k) = DictGet(exc.details, k)

\* C32 witness: a create refused as a duplicate (409) while an update of an
\* unknown id is refused as not found (404).
WitnessC32_ConflictAndNotFound ==
    /\ req["t1"].pc = "failed"
    /\ req["t1"].error = "BookAlreadyExistsException"
    /\ Response(req["t1"]).status_code = 409
    /\ req["t2"].pc = "failed" /\ req["t2"].op = "update"
    /\ req["t2"].error = "BookNotFoundException"
    /\ Response(req["t2"]).status_code = 404

(***************************************************************************)
(* AuthService.register over the users table (auth_service.py,             *)
(* user_repository.py).  A row is [id, email, username]; both columns are  *)
(* unique=True.                                                            *)
(***************************************************************************)
Emails == {"ann@example.com", "bob@example.com"}
Usernames == {"ann", "bob"}

\* UserRepository.find_by_email_or_username: the rows the statement
\* select(User).where((User.email == email) | (User.username == username))
\* returns.
EmailOrUsernameRows(email, username) ==
    {u \in users : u.email = email \/ u.username = username}

\* Result.scalar_one_or_none(): None for no row, the row for one, and
\* MultipleResultsFound for more.
ScalarOneOrNone(rows) ==
    IF rows = {} THEN "None"
    ELSE IF Cardinality(rows) = 1 THEN "one"
    ELSE "MultipleResultsFound"

\* The unique indexes on email and username.
UserUniqueViolation(email, username) ==
    \E u \in users : u.email = email \/ u.username = username

AuthInit ==
    /\ AuthIdle
    /\ CacheIdle
    /\ UowIdle
    /\ BookIdle
    /\ ClientIdle
    /\ FilterIdle
    /\ ManagerIdle

\* POST /auth/register: register(user_data) is called.
Register(t) ==
    /\ reg[t].pc = "idle"
    /\ \E e \in Emails, n \in Usernames :
          reg' = [reg EXCEPT ![t] = [IdleRegister EXCEPT
                     !.pc = "find", !.email = e, !.username = n]]
    /\ UNCHANGED users
    /\ UNCHANGED nonAuthVars

\* existing = await self.user_repo.find_by_email_or_username(...), and the
\* `if existing:` that follows: the field of the exception is "email" when
\* the row found holds the email, else "username".
FindByEmailOrUsername(t) ==
    /\ reg[t].pc = "find"
    /\ LET rows == EmailOrUsernameRows(reg[t].email, reg[t].username)
           existing == ScalarOneOrNone(rows)
           seen == [reg[t] EXCEPT !.taken = rows # {},
                                  !.matches = Cardinality(rows)]
       IN reg' = [reg EXCEPT ![t] =
                     IF existing = "MultipleResultsFound"
                     THEN [seen EXCEPT !.pc = "failed",
                                       !.error = "MultipleResultsFound"]
                     ELSE IF existing = "one"
                     THEN [seen EXCEPT
                              !.pc = "failed",
                              !.error = "UserAlreadyExistsException",
                              !.field =
                                  IF \E u \in rows : u.email = reg[t].email
                                  THEN "email" ELSE "username"]
                     ELSE [seen EXCEPT !.pc = "create"]]
    /\ UNCHANGED users
    /\ UNCHANGED nonAuthVars

\* user = await self.user_repo.create(...): session.add and the commit of
\* BaseRepository.create; a unique index rejects the row when a request
\* that ran meanwhile has stored the email or the username.
RepoCreateUser(t) ==
    /\ reg[t].pc = "create"
    /\ LET row == [id |-> Cardinality(users) + 1, email |-> reg[t].email,
                   username |-> reg[t].username]
       IN \/ /\ UserUniqueViolation(row.email, row.username)
             /\ reg' = [reg EXCEPT ![t].pc = "failed",
                                   ![t].error = "IntegrityError"]
             /\ UNCHANGED users
          \/ /\ ~UserUniqueViolation(row.email, row.username)
             /\ users' = users \cup {row}
             /\ reg' = [reg EXCEPT ![t].pc = "refresh", ![t].id = row.id]
          \/ /\ reg' = [reg EXCEPT ![t].pc = "failed",
                                   ![t].error = "OperationalError"]
             /\ UNCHANGED users
    /\ UNCHANGED nonAuthVars

\* The refresh of BaseRepository.create, the commit of the service and the
\* UserResponse; the refresh and the commit can fail.
RegisterFinish(t) ==
    /\ reg[t].pc = "refresh"
    /\ \/ reg' = [reg EXCEPT ![t].pc = "done"]
       \/ reg' = [reg EXCEPT ![t].pc = "failed",
                             ![t].error = "OperationalError"]
    /\ UNCHANGED users
    /\ UNCHANGED nonAuthVars

\* The call has returned or raised.
RegisterReturn(t) ==
    /\ reg[t].pc \in {"done", "failed"}
    /\ reg' = [reg EXCEPT ![t] = IdleRegister]
    /\ UNCHANGED users
    /\ UNCHANGED nonAuthVars

AuthNext ==
    \/ \E t \in Tasks : Register(t)
    \/ \E t \in Tasks : FindByEmailOrUsername(t)
    \/ \E t \in Tasks : RepoCreateUser(t)
    \/ \E t \in Tasks : RegisterFinish(t)
    \/ \E t \in Tasks : RegisterReturn(t)

AuthSpec == AuthInit /\ [][AuthNext]_vars

(***************************************************************************)
(* Claims about register.                                                  *)
(***************************************************************************)
\* C33 as stated: no two accounts share an email or a username, and a
\* register call that found its email or username held by an existing
\* account has failed with the conflict error (status 409) and has created
\* no account.
ClaimC33_RegisterUnique ==
    /\ \A u1 \in users, u2 \in users :
          u1 # u2 => /\ u1.id # u2.id
                     /\ u1.email # u2.email
                     /\ u1.username # u2.username
    /\ \A t \in Tasks :
          reg[t].taken =>
              /\ reg[t].pc = "failed"
              /\ reg[t].error = "UserAlreadyExistsException"
              /\ reg[t].id = 0

(***************************************************************************)
(* Claims about racing create_book requests.                               *)
(***************************************************************************)
\* A create request that passed its uniqueness check and then failed in
\* book_repo.create while another request's row holds its isbn.
LostCreateRace(t) ==
    /\ req[t].op = "create" /\ req[t].pc = "failed"
    /\ req[t].isbn # NoIsbn
    /\ Len(req[t].trace) > 0
    /\ req[t].trace[Len(req[t].trace)] = "create"
    /\ \E b \in books : b.isbn = req[t].isbn

\* C34 as stated: of the create requests that carry one isbn at most one
\* row becomes durable, and a request that lost the race has failed with
\* the conflict error (status 409).
ClaimC34_RaceLoserConflicts ==
    /\ \A b1 \in books, b2 \in books :
          b1 # b2 /\ b1.isbn # NoIsbn => b1.isbn # b2.isbn
    /\ \A t \in Tasks :
          LostCreateRace(t) =>
              /\ req[t].error = "BookAlreadyExistsException"
              /\ StatusCode(req[t].error) = 409

(***************************************************************************)
(* Two get_or_set calls racing on one key of an empty cache.               *)
(***************************************************************************)
\* Both tasks call get_or_set("k1", factory, 1).
StampedeCall(t) ==
    /\ GetOrSetCall(t)
    /\ gos'[t].key = "k1"
    /\ gos'[t].ttl = 1

StampedeNext ==
    \/ \E t \in Tasks : StampedeCall(t)
    \/ \E t \in Tasks : BackendGet(t)
    \/ \E t \in Tasks : Factory(t)
    \/ \E t \in Tasks : BackendSet(t)
    \/ \E t \in Tasks : GetOrSetReturn(t)

StampedeSpec == CacheInit /\ [][StampedeNext]_vars

\* A call that found no entry for its key, read and wrote without a backend
\* failure, and has computed a value that is stored.
ComputedOnMiss(t) ==
    /\ gos[t].pc \in {"set", "done"}
    /\ ~gos[t].wasLive /\ ~gos[t].readFailed /\ ~gos[t].writeFailed
    /\ gos[t].computed /\ ShouldStore(gos[t].value)

\* C35 as stated: of two calls for one key in flight together the factory
\* is invoked by one at most, and both return the same value.
ClaimC35_ComputeOnce ==
    \A t1 \in Tasks, t2 \in Tasks :
        t1 # t2 /\ gos[t1].key = gos[t2].key
        /\ gos[t1].pc # "idle" /\ gos[t2].pc # "idle" =>
            /\ ~(ComputedOnMiss(t1) /\ ComputedOnMiss(t2))
            /\ gos[t1].pc = "done" /\ gos[t2].pc = "done"
               /\ ~gos[t1].readFailed /\ ~gos[t2].readFailed
               /\ ~gos[t1].writeFailed /\ ~gos[t2].writeFailed
               => gos[t1].value = gos[t2].value

(***************************************************************************)
(* BaseApiClient._request on a client built with any retry count.          *)
(***************************************************************************)
RequestInit ==
    /\ ClientIdle
    /\ CacheIdle
    /\ UowIdle
    /\ BookIdle
    /\ FilterIdle
    /\ ManagerIdle
    /\ AuthIdle

\* _request is called on a client whose `retries` is n.
RequestCall(n) ==
    /\ ol.pc = "idle"
    /\ ol' = [IdleCall EXCEPT !.pc = "request", !.op = "_request",
                              !.retries = n]
    /\ UNCHANGED olStore
    /\ UNCHANGED nonClientVars

\* The loop has run out of attempts without a return or a raise:
\* raise httpx.HTTPError("All ... attempts failed").
RequestExhausted ==
    /\ ol.pc = "request"
    /\ ol.op = "_request"
    /\ ~(ol.attempt < ol.retries)
    /\ ol' = [ol EXCEPT !.pc = "responded", !.exc = "HTTPError"]
    /\ UNCHANGED olStore
    /\ UNCHANGED nonClientVars

\* _request has returned the body or raised.
RequestDone ==
    /\ ol.pc = "responded"
    /\ ol.op = "_request"
    /\ ol' = IdleCall
    /\ UNCHANGED olStore
    /\ UNCHANGED nonClientVars

RequestNext ==
    \/ \E n \in 0..MaxRetries : RequestCall(n)
    \/ \E outcome \in HttpOutcomes : RequestAttempt(outcome)
    \/ RequestExhausted
    \/ RequestDone

\* Every attempt ends (the httpx client has a timeout) and every sleep
\* ends.
RequestSpec ==
    /\ RequestInit
    /\ [][RequestNext]_vars
    /\ WF_vars(\E outcome \in HttpOutcomes : RequestAttempt(outcome))
    /\ WF_vars(RequestExhausted)

(***************************************************************************)
(* Claims about the retry loop.                                            *)
(***************************************************************************)
\* What holds of a _request call with a retry count of 1 or more: it has
\* made `retries` attempts at most; every attempt but the last ended in a
\* timeout or a 5xx status, so none follows a success; while it is in the
\* loop it has made fewer than `retries` attempts; when it is over it has
\* either returned the body of its last attempt, a successful one, or
\* raised.
RequestBounded ==
    ol.op = "_request" /\ ol.retries >= 1 =>
        /\ Len(ol.outcomes) <= ol.retries
        /\ \A i \in 1..(Len(ol.outcomes) - 1) :
              ol.outcomes[i] \in {"timeout", "5xx"}
        /\ ol.pc = "request" =>
              ol.attempt = Len(ol.outcomes) /\ ol.attempt < ol.retries
        /\ ol.pc = "responded" =>
              /\ Len(ol.outcomes) >= 1
              /\ ol.exc = "none" <=>
                    ol.outcomes[Len(ol.outcomes)] \in HttpAnswers

\* C36: for a retry count n >= 1 and any responses, _request makes n
\* attempts at most, none after a success, and ends: it returns the body of
\* the first successful attempt or raises.
TheoremC36_RequestTerminates ==
    /\ []RequestBounded
    /\ (ol.pc = "request") ~> (ol.pc = "responded")

\* C36 witness: with four attempts allowed, the fourth succeeded after two
\* timeouts and a 5xx status.
WitnessC36_LastAttemptSucceeds ==
    /\ ol.op = "_request" /\ ol.retries = 4
    /\ ol.pc = "responded" /\ ol.exc = "none"
    /\ ol.outcomes = <<"timeout", "5xx", "timeout", "docs">>

\* C37: the k-th sleep of a call (k from 0) follows the failed attempt k,
\* a timeout or a 5xx status, and lasts backoff * 2^k: the first lasts
\* backoff and each next twice the one before; there is one sleep between
\* two attempts and none after the last attempt.
TheoremC37_BackoffDelays ==
    ol.op = "_request" /\ ol.retries >= 1 =>
        /\ \A i \in 1..Len(ol.sleeps) :
              /\ ol.outcomes[i] \in {"timeout", "5xx"}
              /\ ol.sleeps[i] = IF i = 1 THEN Backoff
                                ELSE 2 * ol.sleeps[i - 1]
        /\ Len(ol.sleeps) <= ol.retries - 1
        /\ ol.pc = "request" => Len(ol.sleeps) = Len(ol.outcomes)
        /\ ol.pc = "responded" => Len(ol.sleeps) = Len(ol.outcomes) - 1

\* C37 witness: three sleeps of 0.5 s, 1 s and 2 s, after a timeout, a 5xx
\* status and a timeout, and none after the fourth attempt, which timed
\* out too.
WitnessC37_ThreeSleeps ==
    /\ ol.op = "_request" /\ ol.retries = 4
    /\ ol.pc = "responded" /\ ol.exc = "TimeoutException"
    /\ ol.outcomes = <<"timeout", "5xx", "timeout", "timeout">>
    /\ ol.sleeps = <<500, 1000, 2000>>

(***************************************************************************)
(* BookService.search_books: find_by_filters, then count_by_filters, two   *)
(* statements of one session, each reading the rows committed when it      *)
(* runs (the engine is made without an isolation level: READ COMMITTED),   *)
(* while other requests create and delete books.                           *)
(***************************************************************************)
\* The filters of the searches: none, or the genre.
SearchFilters ==
    {f \in Filters :
        /\ f.title = NoFilter /\ f.author = NoFilter
        /\ f.year = NoYear /\ f.available = "None"
        /\ f.genre \in {"None", "Programming"}}

\* Another request has created a book and committed: the row is newer than
\* every stored row.
OtherCreate(content) ==
    /\ Cardinality(shelf) < MaxBooks
    /\ \A b \in shelf : b.id <= MaxBooks
    /\ LET fresh == 1 + Cardinality({i \in 1..(MaxBooks + 1) :
                                        \E b \in shelf : b.id >= i})
       IN shelf' = shelf \cup
              {[id |-> fresh, title |-> content.title,
                author |-> content.author, genre |-> content.genre,
                year |-> content.year, available |-> content.available,
                created_at |-> fresh]}
    /\ UNCHANGED query
    /\ UNCHANGED nonFilterVars

\* Another request has deleted a book and committed.
OtherDelete ==
    /\ \E b \in shelf : shelf' = shelf \ {b}
    /\ UNCHANGED query
    /\ UNCHANGED nonFilterVars

\* books = await self.book_repo.find_by_filters(...).
SearchFind(f, limit, offset) ==
    /\ query.op = "none"
    /\ query' = [op |-> "search_find", title |-> f.title,
                 author |-> f.author, genre |-> f.genre, year |-> f.year,
                 available |-> f.available, limit |-> limit,
                 offset |-> offset,
                 found |-> FindByFiltersRows(shelf, f, limit, offset),
                 total |-> 0]
    /\ UNCHANGED shelf
    /\ UNCHANGED nonFilterVars

\* total = await self.book_repo.count_by_filters(...), and the return of
\* the mapped books with the total.
SearchCount ==
    /\ query.op = "search_find"
    /\ query' = [query EXCEPT
                    !.op = "search",
                    !.total = CountByFiltersRows(shelf, QueryFilters)]
    /\ UNCHANGED shelf
    /\ UNCHANGED nonFilterVars

SearchNext ==
    \/ \E content \in ShelfContents : OtherCreate(content)
    \/ OtherDelete
    \/ \E f \in SearchFilters, limit \in 1..MaxBooks, offset \in 0..1 :
           SearchFind(f, limit, offset)
    \/ SearchCount
    \/ FilterReturn

SearchSpec == FilterInit /\ [][SearchNext]_vars

(***************************************************************************)
(* Claims about search_books.                                              *)
(***************************************************************************)
\* The number of items a page holds when `total` entries match.
PageItems(total, limit, offset) ==
    LET rest == IF total > offset THEN total - offset ELSE 0
    IN IF limit < rest THEN limit ELSE rest

\* C38 as stated: in the result of a search the number of items is
\* min(limit, max(0, total - offset)).
ClaimC38_ItemsMatchTotal ==
    query.op = "search" =>
        Len(query.found) = PageItems(query.total, query.limit, query.offset)

(***************************************************************************)
(* The request session of get_db (core/database.py): one session per       *)
(* request, given to the repositories of the request by the dependency     *)
(* functions, rolled back when the handler raises an Exception, closed in   *)
(* the finally clause and again when the `async with` block of the session *)
(* is left.  The handler works through the repositories of the Unit of     *)
(* Work model above, which share the session and commit their own writes.  *)
(***************************************************************************)

\* `async with async_session_maker() as session: try: yield session`: the
\* session is made and the handler starts with repositories built on it.
GetDb ==
    /\ scope.pc \in {"new", "exited"}
    /\ SessionsMade < MaxSessions
    /\ LET sid == SessionsMade + 1
       IN /\ sessions' = [sessions EXCEPT ![sid] = [status |-> "open", work |-> db]]
          /\ booksSession' = sid
          /\ usersSession' = sid
          /\ scope' = [NewScope EXCEPT !.pc = "body", !.sid = sid, !.entryDb = db]
    /\ UNCHANGED <<db, uowSession>>
    /\ UNCHANGED nonUowVars

\* `await self.book_repo.session.commit()` of the service methods.
SessionCommit ==
    /\ scope.pc = "body"
    /\ scope.ops < MaxOps
    /\ db' = sessions[scope.sid].work
    /\ scope' = [scope EXCEPT !.ops = @ + 1, !.uowCommits = @ + 1]
    /\ UNCHANGED <<sessions, uowSession, booksSession, usersSession>>
    /\ UNCHANGED nonUowVars

\* The handler returns: the generator resumes after the yield and goes to
\* the finally clause.
HandlerReturn ==
    /\ scope.pc = "body"
    /\ scope' = [scope EXCEPT !.pc = "exit_close"]
    /\ UNCHANGED <<db, sessions, uowSession, booksSession, usersSession>>
    /\ UNCHANGED nonUowVars

\* The handler raises an Exception: it is thrown into the generator at the
\* yield and caught by `except Exception`.
HandlerRaise ==
    /\ scope.pc = "body"
    /\ scope' = [scope EXCEPT !.exc = "error", !.pc = "exit_rollback"]
    /\ UNCHANGED <<db, sessions, uowSession, booksSession, usersSession>>
    /\ UNCHANGED nonUowVars

\* The request task is cancelled in the handler: CancelledError is not an
\* Exception, the except clause is passed over and the finally clause runs.
HandlerCancelled ==
    /\ scope.pc = "body"
    /\ scope' = [scope EXCEPT !.exc = "cancelled", !.cancelled = TRUE,
                              !.pc = "exit_close"]
    /\ UNCHANGED <<db, sessions, uowSession, booksSession, usersSession>>
    /\ UNCHANGED nonUowVars

\* `await session.rollback()` then `raise`: the uncommitted work of the
\* session is dropped, the finally clause follows.
GetDbRollback ==
    /\ scope.pc = "exit_rollback"
    /\ sessions' = [sessions EXCEPT ![scope.sid].work = db]
    /\ scope' = [scope EXCEPT !.pc = "exit_close", !.rolledBack = TRUE,
                              !.trace = Append(@, "rollback")]
    /\ UNCHANGED <<db, uowSession, booksSession, usersSession>>
    /\ UNCHANGED nonUowVars

\* `await session.rollback()` raises, or the task is cancelled at that
\* await: the finally clause still runs.
GetDbRollbackRaises ==
    /\ scope.pc = "exit_rollback"
    /\ \E cancelled \in BOOLEAN :
          scope' = [scope EXCEPT !.pc = "exit_close",
                                 !.cancelled = @ \/ cancelled]
    /\ UNCHANGED <<db, sessions, uowSession, booksSession, usersSession>>
    /\ UNCHANGED nonUowVars

\* `finally: await session.close()`: it completes, or the task is cancelled
\* at that await with the close done or not; either way the `async with`
\* block is left next.
GetDbClose ==
    /\ scope.pc = "exit_close"
    /\ \E done \in BOOLEAN :
          IF done
          THEN /\ sessions' = [sessions EXCEPT ![scope.sid] =
                                  [status |-> "closed", work |-> NoRows]]
               /\ scope' = [scope EXCEPT !.pc = "exit_aexit",
                                         !.trace = Append(@, "close")]
          ELSE /\ sessions' = sessions
               /\ scope' = [scope EXCEPT !.pc = "exit_aexit",
                                         !.cancelled = TRUE]
    /\ UNCHANGED <<db, uowSession, booksSession, usersSession>>
    /\ UNCHANGED nonUowVars

\* AsyncSession.__aexit__ of the `async with` block: close() once more, in
\* a shielded task, so that it completes under cancellation too.
SessionAexit ==
    /\ scope.pc = "exit_aexit"
    /\ sessions' = [sessions EXCEPT ![scope.sid] =
                       [status |-> "closed", work |-> NoRows]]
    /\ scope' = [scope EXCEPT !.pc = "exited"]
    /\ UNCHANGED <<db, uowSession, booksSession, usersSession>>
    /\ UNCHANGED nonUowVars

GetDbNext ==
    \/ GetDb
    \/ \E repo \in Repos : RepoCreate(repo)
    \/ \E repo \in Repos : RepoUpdate(repo)
    \/ \E repo \in Repos : RepoDelete(repo)
    \/ \E repo \in Repos : RepoCount(repo)
    \/ SessionCommit
    \/ HandlerReturn
    \/ HandlerRaise
    \/ HandlerCancelled
    \/ GetDbRollback
    \/ GetDbRollbackRaises
    \/ GetDbClose
    \/ SessionAexit

GetDbSpec == UowInit /\ [][GetDbNext]_vars

\* The request has left get_db after its handler raised an Exception.
FailedRequestLeft == scope.pc = "exited" /\ scope.exc = "error"

\* The session of the request that left get_db is closed.
SessionClosedOnExit ==
    scope.pc = "exited" => sessions[scope.sid].status = "closed"

\* C39: when the handler fails after writing, the session is rolled back
\* and then closed and no write of the failed request is durable (the
\* database holds what it held when the request began); the session is
\* closed on every exit path.
ClaimC39_FailedRequestLeavesNothing ==
    /\ SessionClosedOnExit
    /\ (FailedRequestLeft => db = scope.entryDb)

(***************************************************************************)
(* Shutdown with a request in flight: close_all runs while a task is       *)
(* inside BaseApiClient._request.  Requests begin only while the manager   *)
(* runs; one that began before close_all may be asleep between two         *)
(* attempts and go on afterwards.                                          *)
(***************************************************************************)

\* The request of the task slept after a failed attempt and makes its next
\* one: `await self.client.request(...)` evaluates the `client` property
\* again, which makes an httpx.AsyncClient when self._client is None.
NextAttempt(t) ==
    /\ held[t].using
    /\ \E id \in {held[t].client, held[t].cached.client} \ {0} :
          pools' = IF HasPool(id) THEN pools
                   ELSE [pools EXCEPT ![id].state = "open",
                                      ![id].opened = @ + 1]
    /\ UNCHANGED <<mgr, held>>
    /\ UNCHANGED nonManagerVars

\* A request begins on a handle the task holds, while the application is
\* still serving.
BeginRequest(t) ==
    /\ mgr.pc = "running"
    /\ UseClient(t)

ShutdownNext ==
    \/ \E t \in Tasks : GetOpenLibrary(t)
    \/ \E t \in Tasks : GetCachedOpenLibrary(t)
    \/ \E t \in Tasks : BeginRequest(t)
    \/ \E t \in Tasks : NextAttempt(t)
    \/ \E t \in Tasks : UseDone(t)
    \/ CloseAllBegin
    \/ AcloseDone

ShutdownSpec == ManagerInit /\ [][ShutdownNext]_vars

\* C40: once close_all has completed, no connection pool of a client the
\* manager made is open, also when a request was in flight during close_all.
ClaimC40_NoPoolAfterShutdown ==
    mgr.pc = "closed" => \A id \in 1..Len(pools) : pools[id].state # "open"

====
